---- MODULE Spec2Model ----
(***************************************************************************)
(* Gaming rewards protocol: the treasury ledger, the per-user reward       *)
(* account with its rate-limit window, and the claim / harvest             *)
(* instructions of src/contracts.                                          *)
(*                                                                         *)
(* Two levels are modelled.                                                *)
(*  - Method level (SpecTreasury, SpecUserReward): a method of an account  *)
(*    struct runs on `&mut self`; every assignment it made before an       *)
(*    early `?` return stays in the struct.                                *)
(*  - Instruction level (Spec): an Anchor instruction handler; when the    *)
(*    handler returns Err the runtime discards every account write of the  *)
(*    instruction, when it returns Ok all of them are committed together.  *)
(*                                                                         *)
(* u64 amounts are modelled at a reduced width of U64_BITS bits, so that   *)
(* checked_add / `*` overflow is reachable.  Timestamps (i64) are sane     *)
(* clock values and never come near the i64 range.                         *)
(***************************************************************************)
EXTENDS Integers, Sequences, FiniteSets, TLC

\* ------------------------------------------------------------------ bounds
U64_BITS == 8
U64_MAX == 2^U64_BITS - 1

\* Clock value at initialize_treasury.
GENESIS_TIME == 86400

\* Emergency pauses explored.
MaxIncidents == 2

\* u32 counters (reputation_score, slash_count, ...) are modelled at this
\* width, wide enough for ORACLE_REPUTATION_THRESHOLD.
U32_BITS == 7
U32_MAX == 2^U32_BITS - 1

\* Reputation updates and slashes explored on one oracle (SpecOracle).
MaxVerifications == 52
MaxSlashes == 2
\* verification_level is a u8.
U8_BITS == 8
U8_MAX == 2^U8_BITS - 1
\* Direct profile calls stop raising verification_level at MaxLevel and
\* total_verifications at MaxSessions.
MaxLevel == 3
MaxSessions == 2

\* ------------------------------------------------------- program constants
MAX_VERIFICATION_AGE == 300
\* 10_000_000_000 in the source, beyond the reduced u64 width: counted here
\* in units of 10^9 so that a rewards pool can hold more than the maximum.
MAX_CLAIM_AMOUNT == 10
MIN_ORACLE_STAKE == 1000000000
ORACLE_REPUTATION_THRESHOLD == 100
CLAIM_RATE_LIMIT_WINDOW == 3600
MAX_CLAIMS_PER_WINDOW == 10
MIN_TIME_BETWEEN_CLAIMS == 300
\* "Check rate limit (1 hour)": the interval Treasury::can_harvest enforces.
MIN_STAKING_PERIOD == 86400
MAX_STAKING_PERIOD == 2592000
LONG_TERM_STAKER_BONUS == 150
\* The audit trail keeps 10000 entries in the program; the model keeps the
\* rule and scales the number down.
MAX_AUDIT_TRAIL == 3
\* SimpleCipher keys are 32 bytes in the program; the model keeps the
\* indexing rule and scales the length down.  Data is up to MaxDataLen
\* bytes, longer than the key.
KEY_LEN == 2
MaxDataLen == 3
\* check_rate_limit calls explored on one WasmSecurityManager.
MaxWasmCalls == 3
\* 1 hour in milliseconds
HOUR_MS == 3600000
MIN_HARVEST_INTERVAL == 3600

\* The users holding a UserReward account.
Users == {"alice", "bob"}
\* The clock runs for two harvest intervals.
MaxNow == GENESIS_TIME + 2 * MIN_HARVEST_INTERVAL
\* Under SpecRateLimit: up to the first harvest, then long enough for
\* one claim more than MAX_CLAIMS_PER_WINDOW, spaced MIN_TIME_BETWEEN_CLAIMS.
RateLimitMaxNow ==
    GENESIS_TIME + MIN_HARVEST_INTERVAL + MAX_CLAIMS_PER_WINDOW * MIN_TIME_BETWEEN_CLAIMS

\* ------------------------------------------------------------ input sets
\* add_yield amounts: zero, the largest odd amount whose *50 fits the width,
\* and 2^(U64_BITS-1), whose *50 overflows it.
OddYield == 2 * ((U64_MAX \div 50 - 1) \div 2) + 1
WrapYield == 2^(U64_BITS - 1)
YieldAmounts == {0, OddYield, WrapYield}
\* debit amounts for the direct subtract_from_rewards_pool calls.
DebitAmounts == {0, 2 * (U64_MAX \div 6)}
FeeAmounts == {0, U64_MAX \div 2 + 1}
\* harvest_and_rebalance amounts: zero, an odd one, one above u64::MAX / 2.
HarvestAmounts == {0, 3, U64_MAX \div 2 + 1}
\* A harvest that funds two claims more than a full rate-limit window.
WindowHarvest == 2 * (MAX_CLAIMS_PER_WINDOW + 2)
\* claim_reward amounts: zero, the smallest, and one above MAX_CLAIM_AMOUNT.
ClaimAmounts == {0, 1, MAX_CLAIM_AMOUNT + 1}
\* Under SpecAccounting: a harvest that puts a quarter of u64::MAX into the
\* rewards pool, claims of that quarter and of one unit, and a clock that
\* runs for five harvests.
AccountingHarvest == 2 * (U64_MAX \div 4)
AccountingClaims == {1, U64_MAX \div 4}
AccountingMaxNow == GENESIS_TIME + 5 * MIN_HARVEST_INTERVAL
\* slash amounts: nothing, down to the minimum stake, just below it.
SlashAmounts == {0, MIN_ORACLE_STAKE, MIN_ORACLE_STAKE + 1}
\* validate_stake minimums: the program's, and one above it.
MinStakes == {MIN_ORACLE_STAKE, MIN_ORACLE_STAKE + 1}
\* Steam ids: the profile's own and another one.
SteamIds == {"steam_1", "steam_2"}
\* ticket timestamps relative to the clock: stale, oldest fresh, now, future.
TicketOffsets == {0 - MAX_VERIFICATION_AGE - 1, 0 - MAX_VERIFICATION_AGE, 0, 1}
\* wallet keys: the profile's own and another one.
Wallets == {"wallet_1", "wallet_2"}
\* attestation issuers: the trusted oracle key and another one.
ORACLE_PUBKEY == "oracle_pubkey"
Issuers == {ORACLE_PUBKEY, "other_pubkey"}
\* ruby_score of the multi-factor data: absent and present.
RubyScores == {0, 1}
\* start_staking amounts: zero, the smallest, the largest.
StakeAmounts == {0, 1, U64_MAX}
\* start_staking timestamps relative to the clock: now, and one second later.
StakingOffsets == {0, 1}
\* achievement id and rarities of claim_achievement.
AchievementIds == {"ach_1"}
Rarities == {"Common", "Rare"}
\* stake_rewards amounts: zero, a small one, more than any balance.
ProgramStakeAmounts == {0, 2, U64_MAX}
\* unstake_rewards amounts: zero, half and all of the small stake, too much.
UnstakeAmounts == {0, 1, 2, 3}
\* one day, the unit of the staking reward.
DAY == 86400
\* operation types given to the SecurityManager: two with a default policy
\* and one without.
OperationTypes == {"harvest_rebalance", "emergency_operation", "unknown_operation"}
\* operation types recorded in the audit trail.
AuditedOperations == {"harvest_rebalance"}
\* gaming_rewards_program::verify_achievement inputs: achievement ids (one
\* empty), and for the other arguments one valid combination and every
\* combination with one argument outside its range.
VerificationIds == {"", "ach_1", "ach_2"}
ValidVerification ==
    [game_id |-> "game_1", achievement_name |-> "First Blood", reward_amount |-> 1,
     rarity |-> 1, difficulty |-> 1]
VerificationInputs ==
    {ValidVerification,
     [ValidVerification EXCEPT !.game_id = ""],
     [ValidVerification EXCEPT !.achievement_name = ""],
     [ValidVerification EXCEPT !.reward_amount = 0],
     [ValidVerification EXCEPT !.rarity = 0],
     [ValidVerification EXCEPT !.difficulty = 0]}
\* byte values of keys and data
Bytes == {0, 90, 165, 255}
\* register_user of the contracts program: the registering user, every
\* fraud score of a u8, and Steam ids as sequences of characters: a valid
\* one, one of 16 digits, one with a letter, and a second valid one.
RegisteringUsers == {"alice"}
FraudScores == 0..U8_MAX
ValidSteamId == <<"7", "6", "5", "6", "1", "1", "9", "8", "0", "0", "0", "0", "0", "0", "0", "0", "1">>
RegistrationSteamIds == {ValidSteamId, SubSeq(ValidSteamId, 1, 16), [ValidSteamId EXCEPT ![17] = "x"]}
UserDataSteamIds == {ValidSteamId, [ValidSteamId EXCEPT ![17] = "2"]}
\* WasmSecurityManager::check_rate_limit inputs: user ids, operation types
\* and current_time as an offset in milliseconds from the clock.
WasmUserIds == {"user_1", "user_2"}
WasmOperationTypes == {"claim_reward", "harvest_rebalance"}
CurrentTimeOffsets == {0, 1, HOUR_MS - 1}
TickSteps == {MIN_TIME_BETWEEN_CLAIMS, CLAIM_RATE_LIMIT_WINDOW}
\* claim timestamps relative to the clock: stale, oldest fresh, future.
TimestampOffsets == {0 - MAX_VERIFICATION_AGE - 1, 0 - MAX_VERIFICATION_AGE, 1000}

VARIABLES
    treasury,         \* Treasury account
    user_reward,      \* UserReward account of every user
    oracle_account,   \* OracleAccount of every registered oracle
    security_manager, \* SecurityManager account
    profile,          \* UserVerificationProfile of one user
    now,              \* Clock::get()?.unix_timestamp
    overflow_checks,  \* build profile: TRUE = `*` panics on overflow, FALSE = wraps
    protocol_state,   \* ProtocolState of the gaming_rewards_protocol program
    user_profile,     \* its UserProfile account of every user
    achievement,      \* its Achievement account of every user and achievement id
    staking_account,  \* its StakingAccount of every user
    rewards_program,  \* accounts of the gaming_rewards_program program
    cipher,           \* a SimpleCipher with its data, ciphertext and decryption
    user_state,       \* UserState accounts of the contracts program's register_user
    wasm_manager,     \* WasmSecurityManager
    hist,             \* cumulative yield added / amount debited by successful calls
    last              \* the last call: operation and result

\* The accounts of the gaming_rewards_protocol program.
program_vars == <<protocol_state, user_profile, achievement, staking_account>>

\* The accounts of the contracts crate.
contract_vars == <<treasury, user_reward, oracle_account, security_manager, profile, hist>>

\* The state of the other crates.
other_vars == <<rewards_program, cipher, user_state, wasm_manager>>

vars == <<treasury, user_reward, oracle_account, security_manager, profile, now,
          overflow_checks, protocol_state, user_profile, achievement, staking_account,
          rewards_program, cipher, user_state, wasm_manager, hist, last>>

\* ------------------------------------------------------------ arithmetic
None == -1

checked_add(a, b) == IF a + b > U64_MAX THEN None ELSE a + b
checked_sub(a, b) == IF a - b < 0 THEN None ELSE a - b
wrapping_mul(a, b) == (a * b) % (U64_MAX + 1)

\* The u64 operators +, - and *: on overflow they panic (None) in a build
\* with overflow checks and wrap in one without.
plain_add(a, b) ==
    IF a + b > U64_MAX THEN (IF overflow_checks THEN None ELSE (a + b) % (U64_MAX + 1))
    ELSE a + b
plain_sub(a, b) ==
    IF a - b < 0 THEN (IF overflow_checks THEN None ELSE (a - b) % (U64_MAX + 1))
    ELSE a - b
plain_mul(a, b) ==
    IF a * b > U64_MAX THEN (IF overflow_checks THEN None ELSE (a * b) % (U64_MAX + 1))
    ELSE a * b

Res(s, e) == [self |-> s, err |-> e]

\* The Result<bool> of a &self method: err is "Ok" and ret the value, or err
\* is the error and ret, which then stands for no value, is FALSE.
QRes(v, e) == [ret |-> v, err |-> e]

\* ------------------------------------------------------------- Treasury
\* add_yield with both shares computed as a percentage: the odd unit is lost.
add_yield_both_floored(self, yield_amount) ==
    IF ~(yield_amount > 0) THEN Res(self, "InvalidYieldAmount")
    ELSE IF overflow_checks /\ yield_amount * 50 > U64_MAX THEN Res(self, "Panic")
    ELSE
      LET user_share == wrapping_mul(yield_amount, 50) \div 100
          treasury_share == wrapping_mul(yield_amount, 50) \div 100
          pool == checked_add(self.user_rewards_pool, user_share)
          s1 == [self EXCEPT !.user_rewards_pool = pool]
          reserve == checked_add(s1.treasury_reserve, treasury_share)
          s2 == [s1 EXCEPT !.treasury_reserve = reserve]
          balance == checked_add(s2.total_balance, yield_amount)
          s3 == [s2 EXCEPT !.total_balance = balance]
      IN IF pool = None THEN Res(self, "ArithmeticOverflow")
         ELSE IF reserve = None THEN Res(s1, "ArithmeticOverflow")
         ELSE IF balance = None THEN Res(s2, "ArithmeticOverflow")
         ELSE Res(s3, "Ok")

add_yield(self, yield_amount) ==
    IF ~(yield_amount > 0) THEN Res(self, "InvalidYieldAmount")
    ELSE IF overflow_checks /\ yield_amount * 50 > U64_MAX THEN Res(self, "Panic")
    ELSE
      LET user_share == wrapping_mul(yield_amount, 50) \div 100
          treasury_share == yield_amount - user_share
          pool == checked_add(self.user_rewards_pool, user_share)
          s1 == [self EXCEPT !.user_rewards_pool = pool]
          reserve == checked_add(s1.treasury_reserve, treasury_share)
          s2 == [s1 EXCEPT !.treasury_reserve = reserve]
          balance == checked_add(s2.total_balance, yield_amount)
          s3 == [s2 EXCEPT !.total_balance = balance]
      IN IF pool = None THEN Res(self, "ArithmeticOverflow")
         ELSE IF reserve = None THEN Res(s1, "ArithmeticOverflow")
         ELSE IF balance = None THEN Res(s2, "ArithmeticOverflow")
         ELSE Res(s3, "Ok")

\* subtract_from_rewards_pool with total_distributed kept on overflow.
subtract_from_rewards_pool_saturating(self, amount) ==
    IF ~(amount > 0) THEN Res(self, "InvalidYieldAmount")
    ELSE IF ~(self.user_rewards_pool >= amount) THEN Res(self, "InsufficientRewardsPool")
    ELSE
      LET distributed == checked_add(self.total_distributed, amount)
      IN Res([self EXCEPT !.user_rewards_pool = self.user_rewards_pool - amount,
                          !.total_distributed =
                             IF distributed = None THEN self.total_distributed
                             ELSE distributed], "Ok")

\* subtract_from_rewards_pool that debits the pool without counting the
\* amount as distributed.
subtract_from_rewards_pool_not_counting(self, amount) ==
    IF ~(amount > 0) THEN Res(self, "InvalidYieldAmount")
    ELSE IF ~(self.user_rewards_pool >= amount) THEN Res(self, "InsufficientRewardsPool")
    ELSE Res([self EXCEPT !.user_rewards_pool = self.user_rewards_pool - amount], "Ok")

subtract_from_rewards_pool(self, amount) ==
    IF ~(amount > 0) THEN Res(self, "InvalidYieldAmount")
    ELSE IF ~(self.user_rewards_pool >= amount) THEN Res(self, "InsufficientRewardsPool")
    ELSE
      LET pool == checked_sub(self.user_rewards_pool, amount)
          s1 == [self EXCEPT !.user_rewards_pool = pool]
          distributed == checked_add(s1.total_distributed, amount)
          s2 == [s1 EXCEPT !.total_distributed = distributed]
      IN IF pool = None THEN Res(self, "ArithmeticOverflow")
         ELSE IF distributed = None THEN Res(s1, "ArithmeticOverflow")
         ELSE Res(s2, "Ok")

add_fee(self, fee_amount) ==
    LET fees == checked_add(self.treasury_fees, fee_amount)
    IN IF fees = None THEN Res(self, "ArithmeticOverflow")
       ELSE Res([self EXCEPT !.treasury_fees = fees], "Ok")

\* ------------------------------------------------------------ UserReward
\* validate_claim admitting one claim more than the maximum.
validate_claim_one_more(self, current_timestamp) ==
    LET s1 == IF current_timestamp - self.window_start_timestamp >= CLAIM_RATE_LIMIT_WINDOW
              THEN [self EXCEPT !.claims_in_window = 0,
                                !.window_start_timestamp = current_timestamp]
              ELSE self
    IN IF ~(s1.claims_in_window <= MAX_CLAIMS_PER_WINDOW) THEN Res(s1, "RateLimitExceeded")
       ELSE IF ~(current_timestamp - s1.last_claim_timestamp >= MIN_TIME_BETWEEN_CLAIMS)
            THEN Res(s1, "ClaimTooFrequent")
       ELSE Res(s1, "Ok")

\* validate_claim resetting the window one second late.
validate_claim_late_reset(self, current_timestamp) ==
    LET s1 == IF current_timestamp - self.window_start_timestamp > CLAIM_RATE_LIMIT_WINDOW
              THEN [self EXCEPT !.claims_in_window = 0,
                                !.window_start_timestamp = current_timestamp]
              ELSE self
    IN IF ~(s1.claims_in_window < MAX_CLAIMS_PER_WINDOW) THEN Res(s1, "RateLimitExceeded")
       ELSE IF ~(current_timestamp - s1.last_claim_timestamp >= MIN_TIME_BETWEEN_CLAIMS)
            THEN Res(s1, "ClaimTooFrequent")
       ELSE Res(s1, "Ok")

validate_claim(self, current_timestamp) ==
    LET s1 == IF current_timestamp - self.window_start_timestamp >= CLAIM_RATE_LIMIT_WINDOW
              THEN [self EXCEPT !.claims_in_window = 0,
                                !.window_start_timestamp = current_timestamp]
              ELSE self
    IN IF ~(s1.claims_in_window < MAX_CLAIMS_PER_WINDOW) THEN Res(s1, "RateLimitExceeded")
       ELSE IF ~(current_timestamp - s1.last_claim_timestamp >= MIN_TIME_BETWEEN_CLAIMS)
            THEN Res(s1, "ClaimTooFrequent")
       ELSE Res(s1, "Ok")

\* update_claim that forgets to record the time of the claim.
update_claim_without_timestamp(self, amount, timestamp) ==
    LET total == checked_add(self.total_claimed, amount)
        claims == checked_add(self.claims_in_window, 1)
    IN [self EXCEPT !.total_claimed = IF total = None THEN self.total_claimed ELSE total,
                    !.claims_in_window = IF claims = None THEN self.claims_in_window ELSE claims]

update_claim(self, amount, timestamp) ==
    LET total == checked_add(self.total_claimed, amount)
        claims == checked_add(self.claims_in_window, 1)
    IN [self EXCEPT !.total_claimed = IF total = None THEN self.total_claimed ELSE total,
                    !.last_claim_timestamp = timestamp,
                    !.claims_in_window = IF claims = None THEN self.claims_in_window ELSE claims]

start_staking(self, amount, timestamp) ==
    IF ~(~self.is_staking) THEN Res(self, "AlreadyStaking")
    ELSE IF ~(amount > 0) THEN Res(self, "InvalidStakeAmount")
    ELSE Res([self EXCEPT !.is_staking = TRUE, !.staking_start_timestamp = timestamp,
                          !.staked_amount = amount], "Ok")

\* calculate_staking_bonus with the medium tier starting after, not at,
\* MIN_STAKING_PERIOD.
calculate_staking_bonus_after_min(self, current_timestamp) ==
    IF ~self.is_staking THEN 100
    ELSE LET staking_duration == current_timestamp - self.staking_start_timestamp
         IN IF staking_duration >= MAX_STAKING_PERIOD THEN LONG_TERM_STAKER_BONUS
            ELSE IF staking_duration > MIN_STAKING_PERIOD THEN 120
            ELSE 100

calculate_staking_bonus(self, current_timestamp) ==
    IF ~self.is_staking THEN 100
    ELSE LET staking_duration == current_timestamp - self.staking_start_timestamp
         IN IF staking_duration >= MAX_STAKING_PERIOD THEN LONG_TERM_STAKER_BONUS
            ELSE IF staking_duration >= MIN_STAKING_PERIOD THEN 120
            ELSE 100

\* ---------------------------------------------------------- OracleAccount
checked_add32(a, b) == IF a + b > U32_MAX THEN None ELSE a + b

\* validate_stake looking at the status before the stake.
validate_stake_status_first(self, min_stake) ==
    IF ~(self.status = "Active") THEN "OracleNotActive"
    ELSE IF ~(self.stake_amount >= min_stake) THEN "InsufficientOracleStake"
    ELSE "Ok"

validate_stake(self, min_stake) ==
    IF ~(self.stake_amount >= min_stake) THEN "InsufficientOracleStake"
    ELSE IF ~(self.status = "Active") THEN "OracleNotActive"
    ELSE "Ok"

\* update_reputation reinstating only above the threshold.
update_reputation_above_threshold(self, success) ==
    LET ok == checked_add32(self.successful_verifications, 1)
        up == checked_add32(self.reputation_score, 1)
        ko == checked_add32(self.failed_verifications, 1)
        s1 == IF success
              THEN [self EXCEPT
                      !.successful_verifications =
                          IF ok = None THEN self.successful_verifications ELSE ok,
                      !.reputation_score = IF up = None THEN self.reputation_score ELSE up]
              ELSE [self EXCEPT
                      !.failed_verifications =
                          IF ko = None THEN self.failed_verifications ELSE ko,
                      !.reputation_score =
                          IF self.reputation_score = 0 THEN 0 ELSE self.reputation_score - 1]
    IN IF s1.reputation_score < 50 THEN [s1 EXCEPT !.status = "Suspended"]
       ELSE IF s1.reputation_score > ORACLE_REPUTATION_THRESHOLD
            THEN [s1 EXCEPT !.status = "Active"]
       ELSE s1

update_reputation(self, success) ==
    LET ok == checked_add32(self.successful_verifications, 1)
        up == checked_add32(self.reputation_score, 1)
        ko == checked_add32(self.failed_verifications, 1)
        s1 == IF success
              THEN [self EXCEPT
                      !.successful_verifications =
                          IF ok = None THEN self.successful_verifications ELSE ok,
                      !.reputation_score = IF up = None THEN self.reputation_score ELSE up]
              ELSE [self EXCEPT
                      !.failed_verifications =
                          IF ko = None THEN self.failed_verifications ELSE ko,
                      !.reputation_score =
                          IF self.reputation_score = 0 THEN 0 ELSE self.reputation_score - 1]
    IN IF s1.reputation_score < 50 THEN [s1 EXCEPT !.status = "Suspended"]
       ELSE IF s1.reputation_score >= ORACLE_REPUTATION_THRESHOLD
            THEN [s1 EXCEPT !.status = "Active"]
       ELSE s1

\* The result of slash: the account as the call left it, the error, and the
\* amount returned on success.
SRes(s, e, v) == [self |-> s, err |-> e, ret |-> v]

slash(self, slash_amount) ==
    IF ~(self.stake_amount >= slash_amount) THEN SRes(self, "InsufficientStakeToSlash", None)
    ELSE
      LET stake == checked_sub(self.stake_amount, slash_amount)
          s1 == [self EXCEPT !.stake_amount = stake]
          count == checked_add32(s1.slash_count, 1)
          s2 == [s1 EXCEPT !.slash_count = count]
          s3 == IF s2.stake_amount < MIN_ORACLE_STAKE
                THEN [s2 EXCEPT !.status = "Slashed"] ELSE s2
      IN IF stake = None THEN SRes(self, "ArithmeticOverflow", None)
         ELSE IF count = None THEN SRes(s1, "ArithmeticOverflow", None)
         ELSE SRes(s3, "Ok", slash_amount)

\* --------------------------------------------- Treasury (instruction side)
\* The Treasury methods the harvest handler calls.
can_harvest(self, current_timestamp) ==
    current_timestamp - self.last_harvest_timestamp >= MIN_HARVEST_INTERVAL

add_to_rewards_pool(self, amount) ==
    LET pool == checked_add(self.user_rewards_pool, amount)
    IN [self EXCEPT !.user_rewards_pool = IF pool = None THEN U64_MAX ELSE pool]

update_harvest(self, current_timestamp) ==
    [self EXCEPT !.last_harvest_timestamp = current_timestamp]

\* -------------------------------------------------------- SecurityManager
\* The protocol owner and another signer.
Owner == "owner"
Actors == {Owner, "alice"}

\* The policies initialize_default_policies inserts.
DefaultPolicies ==
    [name \in {"claim_reward", "harvest_rebalance", "emergency_operation"} |->
       CASE name = "claim_reward" ->
              [min_security_level |-> "Medium", max_operations |-> 1, time_window |-> 86400,
               required_verifications |-> <<"Oracle", "Stake">>]
         [] name = "harvest_rebalance" ->
              [min_security_level |-> "High", max_operations |-> 1, time_window |-> 3600,
               required_verifications |-> <<"MultiSignature", "TimeLock">>]
         [] name = "emergency_operation" ->
              [min_security_level |-> "Maximum", max_operations |-> 1, time_window |-> 86400,
               required_verifications |-> <<"MultiSignature", "TimeLock", "Oracle">>]]

\* A policy an owner may insert: two operations per hour, no verification.
RelaxedPolicy ==
    [min_security_level |-> "Low", max_operations |-> 2, time_window |-> 3600,
     required_verifications |-> <<>>]

\* add_audit_entry evicting as soon as the maximum is reached.
add_audit_entry_evicting_early(self, operation_type, user, security_level, clock) ==
    LET audit_entry == [timestamp |-> clock, operation_type |-> operation_type, user |-> user,
                        security_level |-> security_level, verified |-> FALSE]
        pushed == Append(self.audit_trail, audit_entry)
    IN Res([self EXCEPT !.audit_trail =
              IF Len(pushed) >= MAX_AUDIT_TRAIL THEN Tail(pushed) ELSE pushed], "Ok")

add_audit_entry(self, operation_type, user, security_level, clock) ==
    LET audit_entry == [timestamp |-> clock, operation_type |-> operation_type, user |-> user,
                        security_level |-> security_level, verified |-> FALSE]
        pushed == Append(self.audit_trail, audit_entry)
    IN Res([self EXCEPT !.audit_trail =
              IF Len(pushed) > MAX_AUDIT_TRAIL THEN Tail(pushed) ELSE pushed], "Ok")

check_rate_limit(self, operation_type, user, current_timestamp, rate_limit) ==
    LET window_start == current_timestamp - rate_limit.time_window
        operation_count ==
          Cardinality({i \in 1..Len(self.audit_trail) :
                         /\ self.audit_trail[i].operation_type = operation_type
                         /\ self.audit_trail[i].user = user
                         /\ self.audit_trail[i].timestamp >= window_start})
    IN operation_count < rate_limit.max_operations

check_security_level(self, required_level, user) ==
    CASE required_level \in {"Low", "Medium", "High"} -> TRUE
      [] required_level \in {"Critical", "Maximum"} -> user = self.owner

check_verification(self, verification_type, user) == TRUE

verify_operation(self, operation_type, user, current_timestamp) ==
    IF ~(~self.emergency_paused) THEN QRes(FALSE, "ProtocolPaused")
    ELSE IF operation_type \notin DOMAIN self.security_policies
         THEN QRes(FALSE, "PolicyNotFound")
    ELSE
      LET policy == self.security_policies[operation_type]
      IN IF ~check_rate_limit(self, operation_type, user, current_timestamp,
                              [max_operations |-> policy.max_operations,
                               time_window |-> policy.time_window])
         THEN QRes(FALSE, "Ok")
         ELSE IF ~check_security_level(self, policy.min_security_level, user)
         THEN QRes(FALSE, "Ok")
         ELSE IF \E i \in 1..Len(policy.required_verifications) :
                   ~check_verification(self, policy.required_verifications[i], user)
         THEN QRes(FALSE, "Ok")
         ELSE QRes(TRUE, "Ok")

update_security_policy(self, policy_name, policy, user) ==
    IF ~(user = self.owner) THEN Res(self, "Unauthorized")
    ELSE Res([self EXCEPT !.security_policies =
                [name \in DOMAIN self.security_policies \cup {policy_name} |->
                   IF name = policy_name THEN policy ELSE self.security_policies[name]]], "Ok")

\* emergency_pause without the owner check.
emergency_pause_by_anyone(self, user) ==
    IF ~(~self.emergency_paused) THEN Res(self, "AlreadyPaused")
    ELSE Res([self EXCEPT !.emergency_paused = TRUE,
                          !.security_incidents = self.security_incidents + 1], "Ok")

emergency_pause(self, user) ==
    IF ~(user = self.owner) THEN Res(self, "Unauthorized")
    ELSE IF ~(~self.emergency_paused) THEN Res(self, "AlreadyPaused")
    ELSE Res([self EXCEPT !.emergency_paused = TRUE,
                          !.security_incidents = self.security_incidents + 1], "Ok")

resume_operations(self, user) ==
    IF ~(user = self.owner) THEN Res(self, "Unauthorized")
    ELSE IF ~self.emergency_paused THEN Res(self, "NotPaused")
    ELSE Res([self EXCEPT !.emergency_paused = FALSE], "Ok")

\* ------------------------------------------------ UserVerificationProfile
\* u8::saturating_add
saturating_add8(a, b) == IF a + b > U8_MAX THEN U8_MAX ELSE a + b

\* ticket_steam_id and ticket_timestamp are the ticket's fields,
\* signature_empty says whether oracle_signature is empty, clock is
\* Clock::get()?.unix_timestamp.
\* verify_steam_session without the not-in-the-future check.
verify_steam_session_accepting_future(self, ticket_steam_id, ticket_timestamp, signature_empty, clock) ==
    IF ~(~self.fraud_detected) THEN Res(self, "FraudDetected")
    ELSE IF ~(ticket_steam_id = self.steam_id) THEN Res(self, "InvalidSteamId")
    ELSE IF ~(~signature_empty) THEN Res(self, "InvalidOracleSignature")
    ELSE IF ~(ticket_timestamp >= clock - MAX_VERIFICATION_AGE)
         THEN Res(self, "StaleVerification")
    ELSE
      LET s1 == [self EXCEPT !.steam_session_valid = TRUE, !.last_verification = clock]
          total == checked_add(s1.total_verifications, 1)
      IN IF total = None THEN Res(s1, "Overflow")
         ELSE Res([s1 EXCEPT !.total_verifications = total], "Ok")

verify_steam_session(self, ticket_steam_id, ticket_timestamp, signature_empty, clock) ==
    IF ~(~self.fraud_detected) THEN Res(self, "FraudDetected")
    ELSE IF ~(ticket_steam_id = self.steam_id) THEN Res(self, "InvalidSteamId")
    ELSE IF ~(~signature_empty) THEN Res(self, "InvalidOracleSignature")
    ELSE IF ~(ticket_timestamp <= clock) THEN Res(self, "InvalidTimestamp")
    ELSE IF ~(ticket_timestamp >= clock - MAX_VERIFICATION_AGE)
         THEN Res(self, "StaleVerification")
    ELSE
      LET s1 == [self EXCEPT !.steam_session_valid = TRUE, !.last_verification = clock]
          total == checked_add(s1.total_verifications, 1)
      IN IF total = None THEN Res(s1, "Overflow")
         ELSE Res([s1 EXCEPT !.total_verifications = total], "Ok")

\* oauth_steam_id, oauth_wallet_pubkey and oauth_timestamp are the fields of
\* oauth_data, signature_empty says whether oauth_data.signature is empty.
verify_oauth_wallet(self, oauth_steam_id, oauth_wallet_pubkey, oauth_timestamp, signature_empty, clock) ==
    IF ~(~self.fraud_detected) THEN Res(self, "FraudDetected")
    ELSE IF ~(oauth_steam_id = self.steam_id) THEN Res(self, "InvalidSteamId")
    ELSE IF ~(oauth_wallet_pubkey = self.wallet_pubkey) THEN Res(self, "InvalidWallet")
    ELSE IF ~(~signature_empty) THEN Res(self, "InvalidWalletSignature")
    ELSE IF ~(oauth_timestamp <= clock) THEN Res(self, "InvalidTimestamp")
    ELSE IF ~(oauth_timestamp >= clock - MAX_VERIFICATION_AGE)
         THEN Res(self, "StaleVerification")
    ELSE Res([self EXCEPT !.oauth_wallet_linked = TRUE,
                          !.verification_level = saturating_add8(self.verification_level, 1),
                          !.last_verification = clock], "Ok")

\* issuer and timestamp are the attestation's fields, proof_empty says
\* whether attestation.proof is empty; zkp_attestations holds the
\* timestamps of the attestations pushed so far.
add_zkp_attestation(self, issuer, timestamp, proof_empty, clock) ==
    IF ~(~self.fraud_detected) THEN Res(self, "FraudDetected")
    ELSE IF ~(issuer = ORACLE_PUBKEY) THEN Res(self, "Unauthorized")
    ELSE IF ~(timestamp <= clock) THEN Res(self, "InvalidTimestamp")
    ELSE IF ~(timestamp >= clock - MAX_VERIFICATION_AGE) THEN Res(self, "StaleVerification")
    ELSE IF ~(~proof_empty) THEN Res(self, "InvalidZKPProof")
    ELSE Res([self EXCEPT !.zkp_attestations = Append(self.zkp_attestations, timestamp),
                          !.verification_level = saturating_add8(self.verification_level, 1),
                          !.last_verification = clock], "Ok")

\* The score verify_multi_factor computes: 25 for every signal present.
\* Each of the four flags says whether that list of mfa_data is empty.
mfa_score(achievements_empty, nfts_empty, activity_empty, ruby_score) ==
    LET s0 == 0
        s1 == IF ~achievements_empty /\ s0 # None THEN checked_add(s0, 25) ELSE s0
        s2 == IF ~nfts_empty /\ s1 # None THEN checked_add(s1, 25) ELSE s1
        s3 == IF ~activity_empty /\ s2 # None THEN checked_add(s2, 25) ELSE s2
        s4 == IF ruby_score > 0 /\ s3 # None THEN checked_add(s3, 25) ELSE s3
    IN s4

\* verify_multi_factor with a score that adds to the stored one.
verify_multi_factor_accumulating(self, achievements_empty, nfts_empty, activity_empty, ruby_score, clock) ==
    IF ~(~self.fraud_detected) THEN Res(self, "FraudDetected")
    ELSE IF ~self.steam_session_valid THEN Res(self, "SteamSessionRequired")
    ELSE IF ~self.oauth_wallet_linked THEN Res(self, "OAuthWalletRequired")
    ELSE
      LET score == mfa_score(achievements_empty, nfts_empty, activity_empty, ruby_score)
          total == IF score = None THEN None ELSE checked_add(self.multi_factor_score, score)
      IN IF total = None THEN Res(self, "Overflow")
         ELSE Res([self EXCEPT !.multi_factor_score = total,
                               !.verification_level = saturating_add8(self.verification_level, 1),
                               !.last_verification = clock], "Ok")

\* verify_multi_factor leaving verification_level as it is.
verify_multi_factor_keeping_level(self, achievements_empty, nfts_empty, activity_empty, ruby_score, clock) ==
    IF ~(~self.fraud_detected) THEN Res(self, "FraudDetected")
    ELSE IF ~self.steam_session_valid THEN Res(self, "SteamSessionRequired")
    ELSE IF ~self.oauth_wallet_linked THEN Res(self, "OAuthWalletRequired")
    ELSE
      LET score == mfa_score(achievements_empty, nfts_empty, activity_empty, ruby_score)
      IN IF score = None THEN Res(self, "Overflow")
         ELSE Res([self EXCEPT !.multi_factor_score = score,
                               !.last_verification = clock], "Ok")

verify_multi_factor(self, achievements_empty, nfts_empty, activity_empty, ruby_score, clock) ==
    IF ~(~self.fraud_detected) THEN Res(self, "FraudDetected")
    ELSE IF ~self.steam_session_valid THEN Res(self, "SteamSessionRequired")
    ELSE IF ~self.oauth_wallet_linked THEN Res(self, "OAuthWalletRequired")
    ELSE
      LET score == mfa_score(achievements_empty, nfts_empty, activity_empty, ruby_score)
      IN IF score = None THEN Res(self, "Overflow")
         ELSE Res([self EXCEPT !.multi_factor_score = score,
                               !.verification_level = saturating_add8(self.verification_level, 1),
                               !.last_verification = clock], "Ok")

\* is_eligible_for_rewards asking for a score above 50.
is_eligible_score_above_50(self) ==
    IF ~(~self.fraud_detected) THEN QRes(FALSE, "FraudDetected")
    ELSE IF ~self.steam_session_valid THEN QRes(FALSE, "SteamSessionRequired")
    ELSE IF ~self.oauth_wallet_linked THEN QRes(FALSE, "OAuthWalletRequired")
    ELSE IF ~(self.verification_level >= 2) THEN QRes(FALSE, "InsufficientVerification")
    ELSE IF ~(self.multi_factor_score > 50) THEN QRes(FALSE, "InsufficientMultiFactor")
    ELSE QRes(TRUE, "Ok")

is_eligible_for_rewards(self) ==
    IF ~(~self.fraud_detected) THEN QRes(FALSE, "FraudDetected")
    ELSE IF ~self.steam_session_valid THEN QRes(FALSE, "SteamSessionRequired")
    ELSE IF ~self.oauth_wallet_linked THEN QRes(FALSE, "OAuthWalletRequired")
    ELSE IF ~(self.verification_level >= 2) THEN QRes(FALSE, "InsufficientVerification")
    ELSE IF ~(self.multi_factor_score >= 50) THEN QRes(FALSE, "InsufficientMultiFactor")
    ELSE QRes(TRUE, "Ok")

\* mark_fraudulent leaving verification_level as it is.
mark_fraudulent_keeping_level(self) ==
    [self EXCEPT !.fraud_detected = TRUE, !.steam_session_valid = FALSE,
                 !.oauth_wallet_linked = FALSE, !.multi_factor_score = 0]

\* mark_fraudulent flipping the flag instead of setting it.
mark_fraudulent_toggling(self) ==
    [self EXCEPT !.fraud_detected = ~self.fraud_detected, !.steam_session_valid = FALSE,
                 !.oauth_wallet_linked = FALSE, !.verification_level = 0,
                 !.multi_factor_score = 0]

mark_fraudulent(self) ==
    [self EXCEPT !.fraud_detected = TRUE, !.steam_session_valid = FALSE,
                 !.oauth_wallet_linked = FALSE, !.verification_level = 0,
                 !.multi_factor_score = 0]

\* ------------------------------------------------------------- handlers
HRes(t, u, e) == [treasury |-> t, user_reward |-> u, err |-> e]

\* The harvest handler without its cooldown check.
harvest_without_cooldown(tr, clock, yield_amount) ==
    IF ~(yield_amount > 0) THEN Res(tr, "InvalidYieldAmount")
    ELSE IF ~(yield_amount <= U64_MAX \div 2) THEN Res(tr, "InvalidYieldAmount")
    ELSE
      LET user_share == yield_amount \div 2
          treasury_share == checked_sub(yield_amount, user_share)
          t1 == add_to_rewards_pool(tr, user_share)
          t2 == update_harvest(t1, clock)
      IN IF treasury_share = None THEN Res(tr, "InvalidYieldAmount")
         ELSE Res(t2, "Ok")

\* instructions/harvest_and_rebalance.rs: the handler's result on its own
\* copy of the treasury account.
harvest_and_rebalance(tr, clock, yield_amount) ==
    IF ~(yield_amount > 0) THEN Res(tr, "InvalidYieldAmount")
    ELSE IF ~(yield_amount <= U64_MAX \div 2) THEN Res(tr, "InvalidYieldAmount")
    ELSE IF ~can_harvest(tr, clock) THEN Res(tr, "HarvestTooFrequent")
    ELSE
      LET user_share == yield_amount \div 2
          treasury_share == checked_sub(yield_amount, user_share)
          t1 == add_to_rewards_pool(tr, user_share)
          t2 == update_harvest(t1, clock)
      IN IF treasury_share = None THEN Res(tr, "InvalidYieldAmount")
         ELSE Res(t2, "Ok")

\* instructions/claim_reward.rs: the handler works on its own copies of the
\* treasury and user_reward accounts.  sig_valid is the outcome of the
\* Ed25519 verification, transfer_ok that of the token-program CPI.
\* claim_reward_checks is the handler up to the point where it invokes the
\* transfer (lines 21-42): the copies it holds there, or the error.
claim_reward_checks(tr, ur, oa, clock, timestamp, sig_valid, claim_amount) ==
    IF ~(claim_amount > 0) THEN HRes(tr, ur, "InvalidYieldAmount")
    ELSE IF ~(claim_amount <= tr.user_rewards_pool)
         THEN HRes(tr, ur, "InsufficientRewardsPool")
    ELSE
      LET v == validate_claim(ur, clock)
          stake == validate_stake(oa, MIN_ORACLE_STAKE)
          time_diff == clock - timestamp
      IN IF v.err # "Ok" THEN HRes(tr, v.self, v.err)
         ELSE IF stake # "Ok" THEN HRes(tr, v.self, stake)
         ELSE IF ~(time_diff <= MAX_VERIFICATION_AGE)
              THEN HRes(tr, v.self, "StaleVerification")
         ELSE IF ~sig_valid THEN HRes(tr, v.self, "InvalidOracleSignature")
         ELSE HRes(tr, v.self, "Ok")

\* The claim handler going on after a failed transfer.
claim_reward_ignoring_transfer_error(tr, ur, oa, clock, timestamp, sig_valid, transfer_ok, claim_amount) ==
    LET c == claim_reward_checks(tr, ur, oa, clock, timestamp, sig_valid, claim_amount)
        d == subtract_from_rewards_pool(c.treasury, claim_amount)
    IN IF c.err # "Ok" THEN c
       ELSE IF d.err # "Ok" THEN HRes(d.self, c.user_reward, d.err)
       ELSE HRes(d.self, update_claim(c.user_reward, claim_amount, clock), "Ok")

\* The whole handler: checks, transfer (line 54), then the state update
\* (lines 57-58).
claim_reward(tr, ur, oa, clock, timestamp, sig_valid, transfer_ok, claim_amount) ==
    LET c == claim_reward_checks(tr, ur, oa, clock, timestamp, sig_valid, claim_amount)
        d == subtract_from_rewards_pool(c.treasury, claim_amount)
    IN IF c.err # "Ok" THEN c
       ELSE IF ~transfer_ok THEN HRes(c.treasury, c.user_reward, "TransferFailed")
       ELSE IF d.err # "Ok" THEN HRes(d.self, c.user_reward, d.err)
       ELSE HRes(d.self, update_claim(c.user_reward, claim_amount, clock), "Ok")

\* ------------------------------------- gaming_rewards_protocol program
\* The accounts an instruction holds when it returns, and its result.  An
\* instruction that returns an error or panics commits none of them.
PRes(ps, up, ach, sa, e) ==
    [protocol_state |-> ps, user_profile |-> up, achievement |-> ach,
     staking_account |-> sa, err |-> e]

\* reward_amount of claim_achievement
rarity_reward(rarity) ==
    CASE rarity = "Common" -> 100
      [] rarity = "Rare" -> 250
      [] rarity = "Epic" -> 500
      [] rarity = "Legendary" -> 1000

\* claim_achievement: the achievement account is created by the instruction
\* (init), which fails when it exists already.
claim_achievement(ps, up, ach, rarity, clock, transfer_ok) ==
    IF ach.initialized THEN PRes(ps, up, ach, None, "AccountAlreadyInUse")
    ELSE IF ~(~ach.is_claimed) THEN PRes(ps, up, ach, None, "AchievementAlreadyClaimed")
    ELSE
      LET reward_amount == rarity_reward(rarity)
          ach1 == [initialized |-> TRUE, reward_amount |-> reward_amount,
                   is_claimed |-> TRUE, claimed_at |-> clock]
          achievements == plain_add(up.total_achievements, 1)
          rewards == plain_add(up.total_rewards, reward_amount)
          up1 == [up EXCEPT !.total_achievements = achievements, !.total_rewards = rewards]
          claimed == plain_add(ps.total_achievements_claimed, 1)
          distributed == plain_add(ps.total_rewards_distributed, reward_amount)
          ps1 == [ps EXCEPT !.total_achievements_claimed = claimed,
                            !.total_rewards_distributed = distributed]
      IN IF None \in {achievements, rewards, claimed, distributed}
         THEN PRes(ps, up, ach, None, "Panic")
         ELSE IF ~transfer_ok THEN PRes(ps1, up1, ach1, None, "TransferFailed")
         ELSE PRes(ps1, up1, ach1, None, "Ok")

\* stake_rewards: the staking account is created by the instruction (init),
\* which fails when it exists already.
stake_rewards(up, sa, amount, clock, transfer_ok) ==
    IF sa.initialized THEN PRes(None, up, None, sa, "AccountAlreadyInUse")
    ELSE IF ~(amount > 0) THEN PRes(None, up, None, sa, "InvalidStakeAmount")
    ELSE IF ~(up.total_rewards >= amount) THEN PRes(None, up, None, sa, "InsufficientRewards")
    ELSE
      LET rewards == plain_sub(up.total_rewards, amount)
          staked == plain_add(up.staked_amount, amount)
          up1 == [up EXCEPT !.total_rewards = rewards, !.staked_amount = staked]
          sa1 == [initialized |-> TRUE, staked_amount |-> amount, staked_at |-> clock,
                  is_active |-> TRUE]
      IN IF None \in {rewards, staked} THEN PRes(None, up, None, sa, "Panic")
         ELSE IF ~transfer_ok THEN PRes(None, up1, None, sa1, "TransferFailed")
         ELSE PRes(None, up1, None, sa1, "Ok")

\* unstake_rewards clearing is_active on every call.
unstake_rewards_always_closing(up, sa, amount, clock, transfer_ok) ==
    IF ~sa.initialized THEN PRes(None, up, None, sa, "AccountNotInitialized")
    ELSE IF ~(amount > 0) THEN PRes(None, up, None, sa, "InvalidStakeAmount")
    ELSE IF ~(sa.staked_amount >= amount)
         THEN PRes(None, up, None, sa, "InsufficientStakedAmount")
    ELSE
      LET staking_duration == clock - sa.staked_at
          days_staked == staking_duration \div DAY
          times5 == plain_mul(amount, 5)
          product == IF times5 = None THEN None ELSE plain_mul(times5, days_staked)
          staking_reward == IF product = None THEN None ELSE product \div (100 * 365)
          total_amount == IF staking_reward = None THEN None
                          ELSE plain_add(amount, staking_reward)
          rewards == IF total_amount = None THEN None
                     ELSE plain_add(up.total_rewards, total_amount)
          staked == plain_sub(up.staked_amount, amount)
          up1 == [up EXCEPT !.total_rewards = rewards, !.staked_amount = staked]
          left == plain_sub(sa.staked_amount, amount)
          sa1 == [sa EXCEPT !.staked_amount = left, !.is_active = FALSE]
      IN IF None \in {rewards, staked, left} THEN PRes(None, up, None, sa, "Panic")
         ELSE IF ~transfer_ok THEN PRes(None, up1, None, sa1, "TransferFailed")
         ELSE PRes(None, up1, None, sa1, "Ok")

\* unstake_rewards: the staking account must exist.
unstake_rewards(up, sa, amount, clock, transfer_ok) ==
    IF ~sa.initialized THEN PRes(None, up, None, sa, "AccountNotInitialized")
    ELSE IF ~(amount > 0) THEN PRes(None, up, None, sa, "InvalidStakeAmount")
    ELSE IF ~(sa.staked_amount >= amount)
         THEN PRes(None, up, None, sa, "InsufficientStakedAmount")
    ELSE
      LET staking_duration == clock - sa.staked_at
          days_staked == staking_duration \div DAY
          times5 == plain_mul(amount, 5)
          product == IF times5 = None THEN None ELSE plain_mul(times5, days_staked)
          staking_reward == IF product = None THEN None ELSE product \div (100 * 365)
          total_amount == IF staking_reward = None THEN None
                          ELSE plain_add(amount, staking_reward)
          rewards == IF total_amount = None THEN None
                     ELSE plain_add(up.total_rewards, total_amount)
          staked == plain_sub(up.staked_amount, amount)
          up1 == [up EXCEPT !.total_rewards = rewards, !.staked_amount = staked]
          left == plain_sub(sa.staked_amount, amount)
          sa1 == [sa EXCEPT !.staked_amount = left,
                            !.is_active = IF left = 0 THEN FALSE ELSE sa.is_active]
      IN IF None \in {rewards, staked, left} THEN PRes(None, up, None, sa, "Panic")
         ELSE IF ~transfer_ok THEN PRes(None, up1, None, sa1, "TransferFailed")
         ELSE PRes(None, up1, None, sa1, "Ok")

\* ---------------------------------------------------------------- state
ZeroTreasury ==
    [total_balance |-> 0, user_rewards_pool |-> 0, treasury_reserve |-> 0,
     total_distributed |-> 0, treasury_fees |-> 0,
     last_harvest_timestamp |-> GENESIS_TIME]

ZeroUserReward ==
    [total_claimed |-> 0, last_claim_timestamp |-> 0, claims_in_window |-> 0,
     window_start_timestamp |-> 0, is_staking |-> FALSE, staking_start_timestamp |-> 0,
     staked_amount |-> 0]

\* An oracle as registered: twice the minimum stake, the threshold
\* reputation, Active.
NewOracle ==
    [stake_amount |-> 2 * MIN_ORACLE_STAKE, status |-> "Active",
     reputation_score |-> ORACLE_REPUTATION_THRESHOLD,
     successful_verifications |-> 0, failed_verifications |-> 0, slash_count |-> 0]

\* The registered oracles: one in good standing; one slashed below the
\* minimum stake; one suspended after 51 failed verifications, its stake
\* intact; one deactivated.
Oracles == {"good", "slashed", "suspended", "inactive"}
InitOracles ==
    [o \in Oracles |->
        CASE o = "good" -> NewOracle
          [] o = "slashed" ->
               [NewOracle EXCEPT !.stake_amount = MIN_ORACLE_STAKE - 1,
                                 !.status = "Slashed", !.slash_count = 1]
          [] o = "suspended" ->
               [NewOracle EXCEPT !.status = "Suspended", !.reputation_score = 49,
                                 !.failed_verifications = 51]
          [] o = "inactive" -> [NewOracle EXCEPT !.status = "Inactive"]]

\* SecurityManager::initialize
InitSecurityManager ==
    [owner |-> Owner, emergency_paused |-> FALSE, security_incidents |-> 0,
     audit_trail |-> <<>>, security_policies |-> DefaultPolicies]

\* UserVerificationProfile::initialize
InitProfile ==
    [steam_id |-> "steam_1", wallet_pubkey |-> "wallet_1", zkp_attestations |-> <<>>,
     verification_level |-> 0, steam_session_valid |-> FALSE,
     oauth_wallet_linked |-> FALSE, multi_factor_score |-> 0, last_verification |-> 0,
     total_verifications |-> 0, fraud_detected |-> FALSE]

\* gaming_rewards_protocol::initialize
\* ---------------------------------------- gaming_rewards_program program
\* UserProfile::verify_achievement with add_rewards.  An error leaves the
\* instruction without effect, so the partial writes are not kept.
verify_achievement(self, reward_amount, clock) ==
    LET achievements_verified == checked_add32(self.achievements_verified, 1)
        total_rewards == checked_add(self.total_rewards, reward_amount)
        reputation_score == checked_add32(self.reputation_score, 10)
    IN IF None \in {achievements_verified, total_rewards, reputation_score}
       THEN Res(self, "ArithmeticOverflow")
       ELSE Res([self EXCEPT !.achievements_verified = achievements_verified,
                             !.last_achievement_verification = clock,
                             !.total_rewards = total_rewards,
                             !.reputation_score = reputation_score,
                             !.security_level =
                                IF achievements_verified % 10 = 0 /\ self.security_level < 5
                                THEN self.security_level + 1 ELSE self.security_level], "Ok")

\* ProtocolState::add_distributed_rewards, then increment_achievements
add_distributed_rewards(self, amount) ==
    LET total_rewards_distributed == checked_add(self.total_rewards_distributed, amount)
        total_achievements == checked_add32(self.total_achievements, 1)
    IN IF None \in {total_rewards_distributed, total_achievements}
       THEN Res(self, "ArithmeticOverflow")
       ELSE Res([self EXCEPT !.total_rewards_distributed = total_rewards_distributed,
                             !.total_achievements = total_achievements], "Ok")

\* The handler of verify_achievement, after the accounts are validated.
verify_handler(self, u, achievement_id, game_id, achievement_name, reward_amount, rarity, difficulty, clock, transfer_ok) ==
    IF ~(achievement_id # "") THEN Res(self, "InvalidAchievementData")
    ELSE IF ~(game_id # "") THEN Res(self, "InvalidAchievementData")
    ELSE IF ~(achievement_name # "") THEN Res(self, "InvalidAchievementData")
    ELSE IF ~(reward_amount > 0) THEN Res(self, "InvalidRewardAmount")
    ELSE IF ~(rarity >= 1 /\ rarity <= 5) THEN Res(self, "InvalidRarity")
    ELSE IF ~(difficulty >= 1 /\ difficulty <= 100) THEN Res(self, "InvalidDifficulty")
    ELSE IF ~(clock - self.user_profile[u].last_achievement_verification >= 60)
    THEN Res(self, "RateLimitExceeded")
    ELSE
      LET record == [initialized |-> TRUE, reward_amount |-> reward_amount, verified_at |-> clock]
          up == verify_achievement(self.user_profile[u], reward_amount, clock)
          ps == add_distributed_rewards(self.protocol_state, reward_amount)
      IN IF up.err # "Ok" THEN Res(self, up.err)
         ELSE IF ~transfer_ok THEN Res(self, "TransferFailed")
         ELSE IF ps.err # "Ok" THEN Res(self, ps.err)
         ELSE Res([self EXCEPT !.achievement_verification[u][achievement_id] = record,
                               !.user_profile[u] = up.self,
                               !.protocol_state = ps.self], "Ok")

\* verify_achievement creating the record only when it does not exist.
verify_init_if_needed(self, u, achievement_id, game_id, achievement_name, reward_amount, rarity, difficulty, clock, transfer_ok) ==
    verify_handler(self, u, achievement_id, game_id, achievement_name, reward_amount, rarity,
                   difficulty, clock, transfer_ok)

\* The verify_achievement instruction: the achievement_verification account
\* is created by the instruction (init, seeds achievement_verification +
\* user + achievement_id), which fails when it exists already.
verify(self, u, achievement_id, game_id, achievement_name, reward_amount, rarity, difficulty, clock, transfer_ok) ==
    IF self.achievement_verification[u][achievement_id].initialized
    THEN Res(self, "AccountAlreadyInUse")
    ELSE verify_handler(self, u, achievement_id, game_id, achievement_name, reward_amount,
                        rarity, difficulty, clock, transfer_ok)

\* The accounts after initialize_protocol and register_user of every user.
NoAchievementVerification == [initialized |-> FALSE, reward_amount |-> 0, verified_at |-> 0]
InitRewardsProgram ==
    [protocol_state |-> [total_rewards_distributed |-> 0, total_achievements |-> 0],
     user_profile |-> [u \in Users |->
                        [total_rewards |-> 0, last_achievement_verification |-> 0,
                         security_level |-> 1, achievements_verified |-> 0,
                         reputation_score |-> 100]],
     achievement_verification |->
        [u \in Users |-> [id \in VerificationIds |-> NoAchievementVerification]]]

\* ------------------------------------------------------------ SimpleCipher
\* u8 ^ u8, bit by bit
RECURSIVE xor_bits(_, _, _)
xor_bits(a, b, n) ==
    IF n = 0 THEN 0
    ELSE (((a % 2) + (b % 2)) % 2) + 2 * xor_bits(a \div 2, b \div 2, n - 1)

\* SimpleCipher::encrypt adding the key byte instead of xoring it.
encrypt_adding(self, data) ==
    [i \in 1..Len(data) |-> (data[i] + self.key[((i - 1) % Len(self.key)) + 1]) % (U8_MAX + 1)]

\* SimpleCipher::encrypt; position i of the code is position i + 1 here.
encrypt(self, data) ==
    [i \in 1..Len(data) |-> xor_bits(data[i], self.key[((i - 1) % Len(self.key)) + 1], U8_BITS)]

decrypt(self, encrypted_data) == encrypt(self, encrypted_data)

RECURSIVE ByteSeqs(_)
ByteSeqs(n) ==
    IF n = 0 THEN {<<>>}
    ELSE {Append(d, b) : d \in ByteSeqs(n - 1), b \in Bytes}

\* SimpleCipher::new with a key, the data to encrypt, nothing done yet.
NewCipher(key, data) ==
    [key |-> key, data |-> data, encrypted |-> <<>>, decrypted |-> <<>>, stage |-> "new"]
InitCipherState == NewCipher([i \in 1..KEY_LEN |-> 0], <<>>)
CipherInputs ==
    {NewCipher(key, data) : key \in ByteSeqs(KEY_LEN),
                            data \in UNION {ByteSeqs(n) : n \in 0..MaxDataLen}}

\* ------------------------------- contracts program: register_user
is_ascii_digit(c) == c \in {"0", "1", "2", "3", "4", "5", "6", "7", "8", "9"}

\* !x of a u8: the bitwise complement
not_u8(x) == U8_MAX - x

\* register_user: the user_state account is created by the instruction
\* (init, seeds user_state + user), which fails when it exists already.
\* In `!fraud_score >= 100` the unary ! applies to fraud_score.
register_user(self, user, steam_id, user_data, clock) ==
    IF self.initialized THEN Res(self, "AccountAlreadyInUse")
    ELSE IF ~(Len(steam_id) = 17 /\ \A i \in 1..Len(steam_id) : is_ascii_digit(steam_id[i]))
    THEN Res(self, "InvalidSteamId")
    ELSE IF ~(user_data.steam_id = steam_id) THEN Res(self, "InvalidConfig")
    ELSE IF ~(not_u8(user_data.security_verification.fraud_score) >= 100)
    THEN Res(self, "UserBlacklisted")
    ELSE Res([initialized |-> TRUE, user |-> user, steam_id |-> steam_id,
              total_rewards_earned |-> 0, total_rewards_claimed |-> 0, total_staked |-> 0,
              active_stakes |-> 0, security_level |-> "Medium",
              registration_timestamp |-> clock, last_activity |-> clock,
              is_blacklisted |-> FALSE,
              fraud_score |-> user_data.security_verification.fraud_score], "Ok")

\* A user_state account that has not been created.
NoUserState ==
    [initialized |-> FALSE, user |-> "", steam_id |-> <<>>, total_rewards_earned |-> 0,
     total_rewards_claimed |-> 0, total_staked |-> 0, active_stakes |-> 0,
     security_level |-> "Low", registration_timestamp |-> 0, last_activity |-> 0,
     is_blacklisted |-> FALSE, fraud_score |-> 0]
InitUserState == [u \in RegisteringUsers |-> NoUserState]

\* ------------------------------------------------- WasmSecurityManager
\* execute_security_operation, the CheckRateLimit arm.  The key of
\* rate_limits is the pair (user_id, operation_type); timestamp is
\* Date::now().  current_time - 3_600_000 is a u64 subtraction: below one
\* hour it panics with overflow checks and wraps to a cutoff above every
\* recorded time without them.
execute_security_operation(self, user_id, operation_type, current_time, timestamp) ==
    LET key == <<user_id, operation_type>>
        underflow == current_time < HOUR_MS
        cutoff_time == current_time - HOUR_MS
        recent_operations ==
          IF underflow THEN <<>>
          ELSE SelectSeq(self.rate_limits[key].operations, LAMBDA op_time : op_time > cutoff_time)
        success == ~(key \in DOMAIN self.rate_limits /\ Len(recent_operations) >= 1)
    IN IF key \in DOMAIN self.rate_limits /\ underflow /\ overflow_checks
       THEN [panic |-> TRUE, success |-> FALSE, error |-> "panic",
             audit_entry |-> [timestamp |-> timestamp, operation_type |-> "check_rate_limit",
                              verified |-> FALSE]]
       ELSE [panic |-> FALSE, success |-> success,
             error |-> IF success THEN "None" ELSE "Rate limit exceeded",
             audit_entry |-> [timestamp |-> timestamp, operation_type |-> "check_rate_limit",
                              verified |-> success]]

\* WasmSecurityManager::new: no audit entry, no rate limit data
InitWasmManager == [audit_trail |-> <<>>, rate_limits |-> <<>>]

InitProtocolState == [total_achievements_claimed |-> 0, total_rewards_distributed |-> 0]

\* gaming_rewards_protocol::register_user
NewUserProfile == [total_achievements |-> 0, total_rewards |-> 0, staked_amount |-> 0]

\* An account that has not been created: all zero.
NoAchievement ==
    [initialized |-> FALSE, reward_amount |-> 0, is_claimed |-> FALSE, claimed_at |-> 0]
NoStakingAccount ==
    [initialized |-> FALSE, staked_amount |-> 0, staked_at |-> 0, is_active |-> FALSE]

Last(op, err) == [op |-> op, err |-> err]

InitAccounts ==
    /\ treasury = ZeroTreasury
    /\ user_reward = [u \in Users |-> ZeroUserReward]
    /\ oracle_account = InitOracles
    /\ security_manager = InitSecurityManager
    /\ profile = InitProfile
    /\ protocol_state = InitProtocolState
    /\ user_profile = [u \in Users |-> NewUserProfile]
    /\ achievement = [u \in Users |-> [id \in AchievementIds |-> NoAchievement]]
    /\ staking_account = [u \in Users |-> NoStakingAccount]
    /\ rewards_program = InitRewardsProgram
    /\ user_state = InitUserState
    /\ wasm_manager = InitWasmManager
    /\ now = GENESIS_TIME
    /\ hist = [yield |-> 0, debit |-> 0, ok |-> TRUE]
    /\ last = Last("initialize_treasury", "Ok")

InitCommon == InitAccounts /\ cipher = InitCipherState

Init == InitCommon /\ overflow_checks = TRUE

InitTreasury == InitCommon /\ overflow_checks \in BOOLEAN

\* The build profile of the gaming_rewards_protocol program is not part of
\* the sources: both settings of overflow checks.
InitProgram == InitCommon /\ overflow_checks \in BOOLEAN

\* hist after a direct Treasury call: sums while every call so far
\* succeeded, frozen at zero from the first failed one.
HistAfter(err, yield_amount, debit_amount) ==
    IF hist.ok /\ err = "Ok"
    THEN [yield |-> hist.yield + yield_amount, debit |-> hist.debit + debit_amount,
          ok |-> TRUE]
    ELSE [yield |-> 0, debit |-> 0, ok |-> FALSE]

\* -------------------------------------------------------------- actions
Tick(step, max_now) ==
    /\ now + step <= max_now
    /\ now' = now + step
    /\ last' = Last("tick", "Ok")
    /\ UNCHANGED <<program_vars, other_vars, treasury, user_reward, oracle_account, security_manager, profile, overflow_checks, hist>>

\* An instruction commits its account writes only when the handler
\* returns Ok.
HarvestAndRebalance(yield_amount) ==
    LET r == harvest_and_rebalance(treasury, now, yield_amount)
    IN /\ treasury' = IF r.err = "Ok" THEN r.self ELSE treasury
       /\ last' = Last("harvest_and_rebalance", r.err)
       /\ UNCHANGED <<program_vars, other_vars, user_reward, oracle_account, security_manager, profile, now, overflow_checks, hist>>

ClaimReward(u, o, offset, sig_valid, transfer_ok, claim_amount) ==
    LET r == claim_reward(treasury, user_reward[u], oracle_account[o], now,
                          now + offset, sig_valid, transfer_ok, claim_amount)
    IN /\ treasury' = IF r.err = "Ok" THEN r.treasury ELSE treasury
       /\ user_reward' = IF r.err = "Ok"
                         THEN [user_reward EXCEPT ![u] = r.user_reward]
                         ELSE user_reward
       /\ hist' = IF r.err = "Ok" THEN HistAfter("Ok", 0, claim_amount) ELSE hist
       /\ last' = Last("claim_reward", r.err)
       /\ UNCHANGED <<program_vars, other_vars, oracle_account, security_manager, profile, now, overflow_checks>>

\* Direct calls of the Treasury methods: the struct keeps whatever the
\* method wrote before it returned.
AddYield(yield_amount) ==
    LET r == add_yield(treasury, yield_amount)
    IN /\ treasury' = r.self
       /\ hist' = HistAfter(r.err, yield_amount, 0)
       /\ last' = Last("add_yield", r.err)
       /\ UNCHANGED <<program_vars, other_vars, user_reward, oracle_account, security_manager, profile, now, overflow_checks>>

SubtractFromRewardsPool(amount) ==
    LET r == subtract_from_rewards_pool(treasury, amount)
    IN /\ treasury' = r.self
       /\ hist' = HistAfter(r.err, 0, amount)
       /\ last' = Last("subtract_from_rewards_pool", r.err)
       /\ UNCHANGED <<program_vars, other_vars, user_reward, oracle_account, security_manager, profile, now, overflow_checks>>

AddFee(fee_amount) ==
    LET r == add_fee(treasury, fee_amount)
    IN /\ treasury' = r.self
       /\ last' = Last("add_fee", r.err)
       /\ UNCHANGED <<program_vars, other_vars, user_reward, oracle_account, security_manager, profile, now, overflow_checks, hist>>

\* Direct calls of the UserReward methods on one account.  update_claim is
\* called as its only caller does: right after validate_claim returned Ok.
ValidateClaim(u) ==
    LET r == validate_claim(user_reward[u], now)
    IN /\ user_reward' = [user_reward EXCEPT ![u] = r.self]
       /\ last' = Last("validate_claim", r.err)
       /\ UNCHANGED <<program_vars, other_vars, treasury, oracle_account, security_manager, profile, now, overflow_checks, hist>>

UpdateClaim(u, amount) ==
    /\ last = Last("validate_claim", "Ok")
    /\ user_reward' = [user_reward EXCEPT ![u] = update_claim(user_reward[u], amount, now)]
    /\ last' = Last("update_claim", "Ok")
    /\ UNCHANGED <<program_vars, other_vars, treasury, oracle_account, security_manager, profile, now, overflow_checks, hist>>

\* The instructions of the gaming_rewards_protocol program.
ClaimAchievement(u, id, rarity, transfer_ok) ==
    LET r == claim_achievement(protocol_state, user_profile[u], achievement[u][id], rarity,
                               now, transfer_ok)
    IN /\ IF r.err = "Ok"
          THEN /\ protocol_state' = r.protocol_state
               /\ user_profile' = [user_profile EXCEPT ![u] = r.user_profile]
               /\ achievement' = [achievement EXCEPT ![u][id] = r.achievement]
          ELSE UNCHANGED <<protocol_state, user_profile, achievement>>
       /\ last' = [op |-> "claim_achievement", err |-> r.err, user |-> u]
       /\ UNCHANGED <<contract_vars, other_vars, staking_account, now, overflow_checks>>

StakeRewards(u, amount, transfer_ok) ==
    LET r == stake_rewards(user_profile[u], staking_account[u], amount, now, transfer_ok)
    IN /\ IF r.err = "Ok"
          THEN /\ user_profile' = [user_profile EXCEPT ![u] = r.user_profile]
               /\ staking_account' = [staking_account EXCEPT ![u] = r.staking_account]
          ELSE UNCHANGED <<user_profile, staking_account>>
       /\ last' = [op |-> "stake_rewards", err |-> r.err, user |-> u]
       /\ UNCHANGED <<contract_vars, other_vars, protocol_state, achievement, now, overflow_checks>>

UnstakeRewards(u, amount, transfer_ok) ==
    LET r == unstake_rewards(user_profile[u], staking_account[u], amount, now, transfer_ok)
    IN /\ IF r.err = "Ok"
          THEN /\ user_profile' = [user_profile EXCEPT ![u] = r.user_profile]
               /\ staking_account' = [staking_account EXCEPT ![u] = r.staking_account]
          ELSE UNCHANGED <<user_profile, staking_account>>
       /\ last' = [op |-> "unstake_rewards", err |-> r.err, user |-> u]
       /\ UNCHANGED <<contract_vars, other_vars, protocol_state, achievement, now, overflow_checks>>

StartStaking(u, amount, offset) ==
    LET r == start_staking(user_reward[u], amount, now + offset)
    IN /\ user_reward' = [user_reward EXCEPT ![u] = r.self]
       /\ last' = Last("start_staking", r.err)
       /\ UNCHANGED <<program_vars, other_vars, treasury, oracle_account, security_manager, profile, now, overflow_checks, hist>>

CalculateStakingBonus(u) ==
    /\ last' = [op |-> "calculate_staking_bonus", err |-> "Ok", user |-> u,
                ret |-> calculate_staking_bonus(user_reward[u], now)]
    /\ UNCHANGED <<program_vars, other_vars, treasury, user_reward, oracle_account, security_manager, profile, now,
                   overflow_checks, hist>>

\* Direct calls of the SecurityManager methods.  security_incidents is a
\* u64 no run brings near its range; the explored runs stop at MaxIncidents.
EmergencyPause(user) ==
    LET r == emergency_pause(security_manager, user)
    IN /\ security_manager.security_incidents < MaxIncidents
       /\ security_manager' = r.self
       /\ last' = Last("emergency_pause", r.err)
       /\ UNCHANGED <<program_vars, other_vars, profile, treasury, user_reward, oracle_account, now, overflow_checks, hist>>

ResumeOperations(user) ==
    LET r == resume_operations(security_manager, user)
    IN /\ security_manager' = r.self
       /\ last' = Last("resume_operations", r.err)
       /\ UNCHANGED <<program_vars, other_vars, profile, treasury, user_reward, oracle_account, now, overflow_checks, hist>>

AddAuditEntry(operation_type, user) ==
    LET r == add_audit_entry(security_manager, operation_type, user, "Medium", now)
    IN /\ security_manager' = r.self
       /\ last' = Last("add_audit_entry", r.err)
       /\ UNCHANGED <<program_vars, other_vars, profile, treasury, user_reward, oracle_account, now, overflow_checks, hist>>

VerifyOperation(operation_type, user) ==
    LET r == verify_operation(security_manager, operation_type, user, now)
    IN /\ last' = [op |-> "verify_operation", err |-> r.err, ret |-> r.ret]
       /\ UNCHANGED <<program_vars, other_vars, contract_vars, now, overflow_checks>>

UpdateSecurityPolicy(policy_name, policy, user) ==
    LET r == update_security_policy(security_manager, policy_name, policy, user)
    IN /\ security_manager' = r.self
       /\ last' = Last("update_security_policy", r.err)
       /\ UNCHANGED <<program_vars, other_vars, profile, treasury, user_reward, oracle_account, now, overflow_checks, hist>>

\* gaming_rewards_program::verify_achievement
VerifyAchievement(u, achievement_id, game_id, achievement_name, reward_amount, rarity, difficulty, transfer_ok) ==
    LET r == verify(rewards_program, u, achievement_id, game_id, achievement_name,
                    reward_amount, rarity, difficulty, now, transfer_ok)
    IN /\ rewards_program' = r.self
       /\ last' = [op |-> "verify_achievement", err |-> r.err, user |-> u,
                   achievement_id |-> achievement_id]
       /\ UNCHANGED <<contract_vars, program_vars, cipher, user_state, wasm_manager, now, overflow_checks>>

\* SimpleCipher::encrypt of the data, then SimpleCipher::decrypt of the result
Encrypt ==
    /\ cipher.stage = "new"
    /\ cipher' = [cipher EXCEPT !.encrypted = encrypt(cipher, cipher.data), !.stage = "encrypted"]
    /\ last' = Last("encrypt", "Ok")
    /\ UNCHANGED <<contract_vars, program_vars, rewards_program, user_state, wasm_manager, now, overflow_checks>>

Decrypt ==
    /\ cipher.stage = "encrypted"
    /\ cipher' = [cipher EXCEPT !.decrypted = decrypt(cipher, cipher.encrypted), !.stage = "decrypted"]
    /\ last' = Last("decrypt", "Ok")
    /\ UNCHANGED <<contract_vars, program_vars, rewards_program, user_state, wasm_manager, now, overflow_checks>>

\* contracts program: register_user
RegisterUser(u, steam_id, user_data_steam_id, fraud_score) ==
    LET user_data == [steam_id |-> user_data_steam_id,
                      security_verification |-> [fraud_score |-> fraud_score]]
        r == register_user(user_state[u], u, steam_id, user_data, now)
    IN /\ user_state' = [user_state EXCEPT ![u] = r.self]
       /\ last' = [op |-> "register_user", err |-> r.err, user |-> u]
       /\ UNCHANGED <<contract_vars, program_vars, rewards_program, cipher, wasm_manager, now, overflow_checks>>

\* WasmSecurityManager::check_rate_limit: the result of
\* execute_security_operation, its audit entry pushed on the trail.
WasmCheckRateLimit(user_id, operation_type, offset) ==
    LET current_time == now * 1000 + offset
        result == execute_security_operation(wasm_manager, user_id, operation_type,
                                             current_time, now * 1000)
    IN /\ Len(wasm_manager.audit_trail) < MaxWasmCalls
       /\ wasm_manager' =
            IF result.panic THEN wasm_manager
            ELSE [wasm_manager EXCEPT !.audit_trail = Append(@, result.audit_entry)]
       /\ last' = [op |-> "check_rate_limit", err |-> IF result.panic THEN "Panic" ELSE "Ok",
                   success |-> result.success, error |-> result.error, user_id |-> user_id,
                   operation_type |-> operation_type, current_time |-> current_time]
       /\ UNCHANGED <<contract_vars, program_vars, rewards_program, cipher, user_state, now, overflow_checks>>

\* Direct calls of the OracleAccount methods.  The explored runs stop at
\* MaxVerifications reputation updates; max_slashes caps the slashes.
ValidateStake(o, min_stake) ==
    /\ last' = Last("validate_stake", validate_stake(oracle_account[o], min_stake))
    /\ UNCHANGED <<program_vars, other_vars, treasury, user_reward, oracle_account, security_manager, profile, now,
                   overflow_checks, hist>>

UpdateReputation(o, success) ==
    /\ oracle_account[o].successful_verifications + oracle_account[o].failed_verifications
         < MaxVerifications
    /\ oracle_account' =
         [oracle_account EXCEPT ![o] = update_reputation(oracle_account[o], success)]
    /\ last' = Last("update_reputation", "Ok")
    /\ UNCHANGED <<program_vars, other_vars, treasury, user_reward, security_manager, profile, now, overflow_checks, hist>>

Slash(o, slash_amount, max_slashes) ==
    LET r == slash(oracle_account[o], slash_amount)
    IN /\ oracle_account[o].slash_count < max_slashes
       /\ oracle_account' = [oracle_account EXCEPT ![o] = r.self]
       /\ last' = [op |-> "slash", err |-> r.err, ret |-> r.ret]
       /\ UNCHANGED <<program_vars, other_vars, treasury, user_reward, security_manager, profile, now, overflow_checks, hist>>

\* Direct calls of the UserVerificationProfile methods.
VerifySteamSession(ticket_steam_id, offset, signature_empty) ==
    LET r == verify_steam_session(profile, ticket_steam_id, now + offset, signature_empty, now)
    IN /\ profile.total_verifications < MaxSessions
       /\ profile' = r.self
       /\ last' = Last("verify_steam_session", r.err)
       /\ UNCHANGED <<program_vars, other_vars, treasury, user_reward, oracle_account, security_manager, now,
                      overflow_checks, hist>>

VerifyOauthWallet(oauth_steam_id, oauth_wallet_pubkey, offset, signature_empty) ==
    LET r == verify_oauth_wallet(profile, oauth_steam_id, oauth_wallet_pubkey, now + offset,
                                 signature_empty, now)
    IN /\ profile.verification_level < MaxLevel
       /\ profile' = r.self
       /\ last' = Last("verify_oauth_wallet", r.err)
       /\ UNCHANGED <<program_vars, other_vars, treasury, user_reward, oracle_account, security_manager, now,
                      overflow_checks, hist>>

AddZkpAttestation(issuer, offset, proof_empty) ==
    LET r == add_zkp_attestation(profile, issuer, now + offset, proof_empty, now)
    IN /\ profile.verification_level < MaxLevel
       /\ profile' = r.self
       /\ last' = Last("add_zkp_attestation", r.err)
       /\ UNCHANGED <<program_vars, other_vars, treasury, user_reward, oracle_account, security_manager, now,
                      overflow_checks, hist>>

VerifyMultiFactor(achievements_empty, nfts_empty, activity_empty, ruby_score) ==
    LET r == verify_multi_factor(profile, achievements_empty, nfts_empty, activity_empty,
                                 ruby_score, now)
    IN /\ profile.verification_level < MaxLevel
       /\ profile' = r.self
       /\ last' = [op |-> "verify_multi_factor", err |-> r.err,
                   was_eligible |-> is_eligible_for_rewards(profile).err = "Ok"]
       /\ UNCHANGED <<program_vars, other_vars, treasury, user_reward, oracle_account, security_manager, now,
                      overflow_checks, hist>>

IsEligibleForRewards ==
    LET r == is_eligible_for_rewards(profile)
    IN /\ last' = [op |-> "is_eligible_for_rewards", err |-> r.err, ret |-> r.ret]
       /\ UNCHANGED <<program_vars, other_vars, treasury, user_reward, oracle_account, security_manager, profile, now,
                      overflow_checks, hist>>

MarkFraudulent ==
    /\ profile' = mark_fraudulent(profile)
    /\ last' = Last("mark_fraudulent", "Ok")
    /\ UNCHANGED <<program_vars, other_vars, treasury, user_reward, oracle_account, security_manager, now,
                   overflow_checks, hist>>

\* ------------------------------------------------------- specifications
\* The instructions of the program, called with well-formed and malformed
\* requests.
Next ==
    \/ \E step \in TickSteps : Tick(step, MaxNow)
    \/ \E yield_amount \in HarvestAmounts : HarvestAndRebalance(yield_amount)
    \/ \E u \in Users, o \in Oracles, offset \in TimestampOffsets,
          sig_valid \in BOOLEAN, transfer_ok \in BOOLEAN, claim_amount \in ClaimAmounts :
            ClaimReward(u, o, offset, sig_valid, transfer_ok, claim_amount)

Spec == Init /\ [][Next]_vars

\* The instructions called with well-formed claims of one unit against a
\* pool that funds more than a full rate-limit window.
NextRateLimit ==
    \/ \E step \in TickSteps : Tick(step, RateLimitMaxNow)
    \/ HarvestAndRebalance(WindowHarvest)
    \/ \E u \in Users : ClaimReward(u, "good", 0, TRUE, TRUE, 1)

SpecRateLimit == Init /\ [][NextRateLimit]_vars

\* The Treasury methods called directly, and well-formed claim_reward
\* requests of any amount, at one clock value.
NextTreasury ==
    \/ \E yield_amount \in YieldAmounts : AddYield(yield_amount)
    \/ \E amount \in DebitAmounts : SubtractFromRewardsPool(amount)
    \/ \E fee_amount \in FeeAmounts : AddFee(fee_amount)
    \/ \E u \in Users, claim_amount \in ClaimAmounts :
          ClaimReward(u, "good", 0, TRUE, TRUE, claim_amount)

SpecTreasury == InitTreasury /\ [][NextTreasury]_vars

\* The UserReward methods called directly on one account.
NextUserReward ==
    \/ \E step \in TickSteps : Tick(step, MaxNow)
    \/ ValidateClaim("alice")
    \/ UpdateClaim("alice", 1)

SpecUserReward == Init /\ [][NextUserReward]_vars

\* ----------------------------------------------------------------------
\* Treasury ledger (SpecTreasury)
\* ----------------------------------------------------------------------

\* C1: in every state reached from the all-zero Treasury by add_yield,
\* subtract_from_rewards_pool, add_fee and claim_reward calls, successful or
\* failed, user_rewards_pool + treasury_reserve <= total_balance.
C1_PoolsWithinBalance ==
    treasury.user_rewards_pool + treasury.treasury_reserve <= treasury.total_balance

\* C2: conservation.  While every add_yield and debit call so far has
\* succeeded, user_rewards_pool + treasury_reserve equals the yield added
\* minus the amount debited, and the amount debited equals total_distributed.
C2_Conservation ==
    hist.ok =>
        /\ treasury.user_rewards_pool + treasury.treasury_reserve = hist.yield - hist.debit
        /\ hist.debit = treasury.total_distributed

\* A successful debit after successful yields, none failed so far.
C2_Witness ==
    /\ hist.ok
    /\ hist.yield > 0
    /\ hist.debit > 0
    /\ last = Last("subtract_from_rewards_pool", "Ok")

\* C5: add_yield is atomic.  A call that returns an error leaves
\* user_rewards_pool, treasury_reserve and total_balance at their pre-call
\* values, the error is InvalidYieldAmount or ArithmeticOverflow, and an
\* overflowing share computation is reported as ArithmeticOverflow.
C5_AddYieldAtomic ==
    [][\A yield_amount \in YieldAmounts :
          AddYield(yield_amount) =>
            /\ last'.err # "Ok" =>
                  /\ treasury'.user_rewards_pool = treasury.user_rewards_pool
                  /\ treasury'.treasury_reserve = treasury.treasury_reserve
                  /\ treasury'.total_balance = treasury.total_balance
                  /\ last'.err \in {"InvalidYieldAmount", "ArithmeticOverflow"}
            /\ yield_amount * 50 > U64_MAX => last'.err = "ArithmeticOverflow"]_vars

\* What a debit step does to the two fields the debit is about.
DebitUnchanged ==
    /\ treasury'.user_rewards_pool = treasury.user_rewards_pool
    /\ treasury'.total_distributed = treasury.total_distributed

DebitApplied(amount) ==
    /\ treasury'.user_rewards_pool = treasury.user_rewards_pool - amount
    /\ treasury'.total_distributed = treasury.total_distributed + amount

\* C6: a debit (subtract_from_rewards_pool, and claim_reward through it)
\* with amount = 0 or amount > user_rewards_pool fails with
\* InsufficientRewardsPool and changes neither user_rewards_pool nor
\* total_distributed; otherwise the pool decreases and total_distributed
\* increases by exactly amount.  The pool is never negative and
\* total_distributed never decreases.
C6_DebitAsStated ==
    [][/\ \A amount \in DebitAmounts :
            SubtractFromRewardsPool(amount) =>
              IF amount = 0 \/ amount > treasury.user_rewards_pool
              THEN last'.err = "InsufficientRewardsPool" /\ DebitUnchanged
              ELSE DebitApplied(amount)
       /\ \A u \in Users, amount \in ClaimAmounts :
            ClaimReward(u, "good", 0, TRUE, TRUE, amount) =>
              IF amount = 0 \/ amount > treasury.user_rewards_pool
              THEN last'.err = "InsufficientRewardsPool" /\ DebitUnchanged
              ELSE last'.err = "Ok" => DebitApplied(amount)
       /\ treasury'.user_rewards_pool >= 0
       /\ treasury'.total_distributed >= treasury.total_distributed]_vars

\* ----------------------------------------------------------------------
\* Harvest (Spec)
\* ----------------------------------------------------------------------

\* C3: a successful harvest_and_rebalance(Y) increases user_rewards_pool by
\* floor(Y/2) and treasury_reserve by Y - floor(Y/2), so both together grow
\* by exactly Y.
C3_HarvestSplit ==
    [][\A yield_amount \in HarvestAmounts :
          (HarvestAndRebalance(yield_amount) /\ last'.err = "Ok") =>
            /\ treasury'.user_rewards_pool =
                  treasury.user_rewards_pool + yield_amount \div 2
            /\ treasury'.treasury_reserve =
                  treasury.treasury_reserve + (yield_amount - yield_amount \div 2)]_vars

C7_ClaimsInWindowBounded ==
    \A u \in Users : user_reward[u].claims_in_window <= MAX_CLAIMS_PER_WINDOW

\* One user has used the whole window and was just refused, while another
\* user has claimed in between.
C7_Witness ==
    /\ last = Last("claim_reward", "RateLimitExceeded")
    /\ \E u, v \in Users :
          /\ u # v
          /\ user_reward[u].claims_in_window = MAX_CLAIMS_PER_WINDOW
          /\ user_reward[v].total_claimed > 0

\* C8: the window check resets the window exactly when now -
\* window_start_timestamp >= CLAIM_RATE_LIMIT_WINDOW: then claims_in_window
\* becomes 0 and window_start_timestamp becomes now, together; otherwise it
\* leaves both as they are.  No other call moves window_start_timestamp.
C8_WindowReset ==
    [][/\ ValidateClaim("alice") =>
            IF now - user_reward["alice"].window_start_timestamp >= CLAIM_RATE_LIMIT_WINDOW
            THEN /\ user_reward'["alice"].claims_in_window = 0
                 /\ user_reward'["alice"].window_start_timestamp = now
            ELSE /\ user_reward'["alice"].claims_in_window =
                       user_reward["alice"].claims_in_window
                 /\ user_reward'["alice"].window_start_timestamp =
                       user_reward["alice"].window_start_timestamp
       /\ user_reward'["alice"].window_start_timestamp #
             user_reward["alice"].window_start_timestamp
             => last'.op = "validate_claim"]_vars

\* The window was just reset for an account that had claimed in the
\* previous window.
C8_Witness ==
    /\ last = Last("validate_claim", "Ok")
    /\ user_reward["alice"].window_start_timestamp = now
    /\ user_reward["alice"].claims_in_window = 0
    /\ user_reward["alice"].total_claimed > 0

\* C9: minimum spacing.  A successful claim_reward of a user happens at
\* least MIN_TIME_BETWEEN_CLAIMS after the user's last_claim_timestamp and
\* sets it to the current time, and nothing else moves it; a claim attempted
\* sooner fails, with ClaimTooFrequent when the amount and rate-limit checks
\* before it pass.
C9_ClaimSpacing ==
    [][/\ \A u \in Users :
            ClaimReward(u, "good", 0, TRUE, TRUE, 1) =>
              /\ last'.err = "Ok" =>
                    /\ now - user_reward[u].last_claim_timestamp >= MIN_TIME_BETWEEN_CLAIMS
                    /\ user_reward'[u].last_claim_timestamp = now
              /\ now - user_reward[u].last_claim_timestamp < MIN_TIME_BETWEEN_CLAIMS =>
                    /\ last'.err # "Ok"
                    /\ user_reward' = user_reward
                    /\ ( /\ treasury.user_rewards_pool >= 1
                          /\ user_reward[u].claims_in_window < MAX_CLAIMS_PER_WINDOW )
                        => last'.err = "ClaimTooFrequent"
       /\ \A u \in Users :
            user_reward'[u].last_claim_timestamp # user_reward[u].last_claim_timestamp
              => last' = Last("claim_reward", "Ok")]_vars

\* A claim refused as too frequent after both users have claimed.
C9_Witness ==
    /\ last = Last("claim_reward", "ClaimTooFrequent")
    /\ \A u \in Users : user_reward[u].last_claim_timestamp > 0

\* ----------------------------------------------------------------------
\* Order of the claim checks (Spec)
\* ----------------------------------------------------------------------

\* The check an error of claim_reward belongs to.
CheckOf(err) ==
    CASE err = "ProtocolPaused" -> "paused"
      [] err \in {"InvalidYieldAmount", "InsufficientRewardsPool"} -> "amount"
      [] err = "RateLimitExceeded" -> "rate_limit"
      [] err = "ClaimTooFrequent" -> "spacing"
      [] err \in {"InvalidOracleSignature", "InsufficientOracleStake", "OracleNotActive"}
           -> "oracle"
      [] err = "StaleVerification" -> "freshness"
      [] OTHER -> "none"

\* The earliest check a request violates, in the stated order.
EarliestFailingCheck(u, o, offset, sig_valid, claim_amount) ==
    LET ur == user_reward[u]
        claims == IF now - ur.window_start_timestamp >= CLAIM_RATE_LIMIT_WINDOW
                  THEN 0 ELSE ur.claims_in_window
    IN IF security_manager.emergency_paused THEN "paused"
       ELSE IF claim_amount = 0 \/ claim_amount > treasury.user_rewards_pool THEN "amount"
       ELSE IF claims >= MAX_CLAIMS_PER_WINDOW THEN "rate_limit"
       ELSE IF now - ur.last_claim_timestamp < MIN_TIME_BETWEEN_CLAIMS THEN "spacing"
       ELSE IF ~sig_valid \/ validate_stake(oracle_account[o], MIN_ORACLE_STAKE) # "Ok"
            THEN "oracle"
       ELSE IF 0 - offset > MAX_VERIFICATION_AGE THEN "freshness"
       ELSE "none"

\* C10: claim_reward checks, in this order, protocol not paused, amount and
\* pool, rate-limit window, spacing, oracle signature and stake, timestamp
\* freshness; the error returned is that of the earliest failing check.
C10_CheckOrder ==
    [][\A u \in Users, o \in Oracles, offset \in TimestampOffsets,
          sig_valid \in BOOLEAN, transfer_ok \in BOOLEAN, claim_amount \in ClaimAmounts :
          ClaimReward(u, o, offset, sig_valid, transfer_ok, claim_amount) =>
            CheckOf(last'.err) =
              EarliestFailingCheck(u, o, offset, sig_valid, claim_amount)]_vars

\* ----------------------------------------------------------------------
\* Claim amount bound (SpecTreasury)
\* ----------------------------------------------------------------------

\* C11: claim_reward never succeeds for a claim amount outside
\* [1, MAX_CLAIM_AMOUNT], even when the rewards pool holds that amount.
C11_ClaimAmountBounded ==
    [][\A u \in Users, claim_amount \in ClaimAmounts :
          (ClaimReward(u, "good", 0, TRUE, TRUE, claim_amount) /\ last'.err = "Ok") =>
            (1 <= claim_amount /\ claim_amount <= MAX_CLAIM_AMOUNT)]_vars

\* ----------------------------------------------------------------------
\* Emergency pause (SpecPause)
\* ----------------------------------------------------------------------
\* Well-formed claims and harvests, with the owner and another signer
\* pausing and resuming the protocol in between.
NextPause ==
    \/ Tick(MIN_HARVEST_INTERVAL, MaxNow)
    \/ HarvestAndRebalance(WindowHarvest)
    \/ \E u \in Users : ClaimReward(u, "good", 0, TRUE, TRUE, 1)
    \/ \E user \in Actors : EmergencyPause(user)
    \/ \E user \in Actors : ResumeOperations(user)

SpecPause == Init /\ [][NextPause]_vars

\* C12: while the emergency-pause flag is set no claim_reward succeeds: from
\* emergency_pause until the next resume the rewards pool is not paid out,
\* and total_distributed and every user's total_claimed stay unchanged.
C12_NoPayoutWhilePaused ==
    [][security_manager.emergency_paused =>
          /\ last' # Last("claim_reward", "Ok")
          /\ treasury'.user_rewards_pool >= treasury.user_rewards_pool
          /\ treasury'.total_distributed = treasury.total_distributed
          /\ \A u \in Users :
                user_reward'[u].total_claimed = user_reward[u].total_claimed]_vars

\* ----------------------------------------------------------------------
\* The claim handler's transfer, failures and freshness (Spec)
\* ----------------------------------------------------------------------

\* C13: in claim_reward the treasury debit and the user account update
\* happen before the transfer is invoked: the transfer is never invoked
\* while the ledger the handler holds still shows the pre-claim pool and
\* user account.
C13_UpdateBeforeTransfer ==
    [][\A u \in Users, o \in Oracles, offset \in TimestampOffsets,
          sig_valid \in BOOLEAN, transfer_ok \in BOOLEAN, claim_amount \in ClaimAmounts :
          ClaimReward(u, o, offset, sig_valid, transfer_ok, claim_amount) =>
            LET c == claim_reward_checks(treasury, user_reward[u], oracle_account[o],
                                         now, now + offset, sig_valid, claim_amount)
            IN c.err = "Ok" =>
                 ~( /\ c.treasury.user_rewards_pool = treasury.user_rewards_pool
                    /\ c.treasury.total_distributed = treasury.total_distributed
                    /\ c.user_reward.total_claimed = user_reward[u].total_claimed
                    /\ c.user_reward.last_claim_timestamp =
                          user_reward[u].last_claim_timestamp )]_vars

\* C14: a claim_reward call that fails, for any reason, the external
\* transfer included, leaves the Treasury and every UserReward account
\* exactly as they were before the call: a claim_reward step that changes
\* either of them returned Ok and its transfer went through.
C14_FailedClaimChangesNothing ==
    [][( /\ last'.op = "claim_reward"
         /\ (treasury' # treasury \/ user_reward' # user_reward) ) =>
          /\ last'.err = "Ok"
          /\ \A u \in Users, o \in Oracles, offset \in TimestampOffsets,
                sig_valid \in BOOLEAN, transfer_ok \in BOOLEAN, claim_amount \in ClaimAmounts :
                ClaimReward(u, o, offset, sig_valid, transfer_ok, claim_amount) => transfer_ok]_vars

\* A claim that passed the window check, which reset the window on the
\* handler's copy of a fresh account, and then failed: the account still
\* shows no window.
C14_Witness ==
    /\ last.op = "claim_reward"
    /\ last.err \in {"StaleVerification", "InvalidOracleSignature", "TransferFailed",
                      "InsufficientOracleStake", "OracleNotActive"}
    /\ treasury.user_rewards_pool > 0
    /\ \A u \in Users : user_reward[u].window_start_timestamp = 0

\* C15: claim_reward succeeds only if the supplied timestamp t satisfies
\* now - MAX_VERIFICATION_AGE <= t <= now; an older t fails with
\* StaleVerification and a future t does not succeed.
C15_TimestampFresh ==
    [][\A u \in Users, o \in Oracles, offset \in TimestampOffsets,
          sig_valid \in BOOLEAN, transfer_ok \in BOOLEAN, claim_amount \in ClaimAmounts :
          ClaimReward(u, o, offset, sig_valid, transfer_ok, claim_amount) =>
            /\ last'.err = "Ok" =>
                  (now - MAX_VERIFICATION_AGE <= now + offset /\ now + offset <= now)
            /\ ( /\ now + offset < now - MAX_VERIFICATION_AGE
                  /\ claim_reward_checks(treasury, user_reward[u], oracle_account[o], now,
                                          now, sig_valid, claim_amount).err = "Ok" )
                => last'.err = "StaleVerification"]_vars

\* ----------------------------------------------------------------------
\* Oracle accounts (SpecOracle, SpecSlash)
\* ----------------------------------------------------------------------
\* One oracle's account under reputation updates and slashes, with the stake
\* of every oracle validated in between.
NextOracle ==
    \/ \E o \in Oracles, min_stake \in MinStakes : ValidateStake(o, min_stake)
    \/ \E success \in BOOLEAN : UpdateReputation("good", success)
    \/ \E slash_amount \in SlashAmounts : Slash("good", slash_amount, MaxSlashes)

SpecOracle == Init /\ [][NextOracle]_vars

\* One oracle slashed for as long as the calls go.
NextSlash ==
    \E slash_amount \in SlashAmounts : Slash("good", slash_amount, U32_MAX + 1)

SpecSlash == Init /\ [][NextSlash]_vars

\* C16: validate_stake(min) returns Ok iff stake_amount >= min and status =
\* Active; it fails with InsufficientOracleStake when stake_amount < min,
\* whatever the status, and with OracleNotActive when stake_amount >= min
\* and the status is not Active; it never modifies the oracle account.
C16_ValidateStake ==
    [][\A o \in Oracles, min_stake \in MinStakes :
          ValidateStake(o, min_stake) =>
            LET oa == oracle_account[o]
            IN /\ last'.err = "Ok" <=>
                    (oa.stake_amount >= min_stake /\ oa.status = "Active")
               /\ oa.stake_amount < min_stake => last'.err = "InsufficientOracleStake"
               /\ (oa.stake_amount >= min_stake /\ oa.status # "Active")
                    => last'.err = "OracleNotActive"
               /\ oracle_account' = oracle_account]_vars

\* A stake found too small on an oracle that is not Active either, after
\* the oracle under test has been slashed.
C16_Witness ==
    /\ last = Last("validate_stake", "InsufficientOracleStake")
    /\ oracle_account["good"].stake_amount < MIN_ORACLE_STAKE
    /\ oracle_account["good"].status # "Active"

\* C17: for every oracle, in every state reached by slash and
\* update_reputation calls, stake_amount < MIN_ORACLE_STAKE implies status =
\* Slashed: no reputation update moves an under-staked oracle back to Active
\* or to Suspended.
C17_UnderStakedIsSlashed ==
    \A o \in Oracles :
        oracle_account[o].stake_amount < MIN_ORACLE_STAKE
          => oracle_account[o].status = "Slashed"

\* The oracles whose status comes from their successes and failures alone.
NeverSlashed ==
    {o \in Oracles : oracle_account[o].slash_count = 0 /\ oracle_account[o].status # "Inactive"}

\* C18: after every update_reputation call the status is a function of the
\* current reputation alone: below 50 it is Suspended, from
\* ORACLE_REPUTATION_THRESHOLD on it is Active, and two oracles with equal
\* reputation after the call have equal status, whatever their earlier
\* successes and failures.
C18_StatusFunctionOfReputation ==
    \A o1 \in NeverSlashed, o2 \in NeverSlashed, s1 \in BOOLEAN, s2 \in BOOLEAN :
        LET a == update_reputation(oracle_account[o1], s1)
            b == update_reputation(oracle_account[o2], s2)
        IN /\ a.reputation_score < 50 => a.status = "Suspended"
           /\ a.reputation_score >= ORACLE_REPUTATION_THRESHOLD => a.status = "Active"
           /\ a.reputation_score = b.reputation_score => a.status = b.status

\* C18 amended: after every update_reputation call, a reputation below 50
\* gives Suspended, a reputation of ORACLE_REPUTATION_THRESHOLD or more
\* gives Active, and a reputation in between leaves the status as it was
\* before the call.
C18_StatusAfterUpdate ==
    [][\A success \in BOOLEAN :
          UpdateReputation("good", success) =>
            LET a == oracle_account'["good"]
            IN /\ a.reputation_score < 50 => a.status = "Suspended"
               /\ a.reputation_score >= ORACLE_REPUTATION_THRESHOLD => a.status = "Active"
               /\ (50 <= a.reputation_score /\ a.reputation_score < ORACLE_REPUTATION_THRESHOLD)
                    => a.status = oracle_account["good"].status]_vars

\* The oracle under test, suspended by its failures, is back in the band
\* between the two thresholds and still Suspended.
C18_Witness ==
    /\ last = Last("update_reputation", "Ok")
    /\ oracle_account["good"].reputation_score = 50
    /\ oracle_account["good"].status = "Suspended"
    /\ oracle_account["good"].successful_verifications > 0

\* C19: slash(amount) with amount > stake fails and leaves stake,
\* slash_count and status unchanged; with amount <= stake it returns exactly
\* amount, the new stake is the old stake minus amount, never negative,
\* slash_count grows by one, and the status becomes Slashed iff the new
\* stake is below MIN_ORACLE_STAKE, otherwise it is unchanged.
C19_Slash ==
    [][\A slash_amount \in SlashAmounts :
          Slash("good", slash_amount, U32_MAX + 1) =>
            LET old == oracle_account["good"]
                new == oracle_account'["good"]
            IN IF slash_amount > old.stake_amount
               THEN /\ last'.err # "Ok"
                    /\ new.stake_amount = old.stake_amount
                    /\ new.slash_count = old.slash_count
                    /\ new.status = old.status
               ELSE /\ last'.err = "Ok"
                    /\ last'.ret = slash_amount
                    /\ new.stake_amount = old.stake_amount - slash_amount
                    /\ new.stake_amount >= 0
                    /\ new.slash_count = old.slash_count + 1
                    /\ new.status = IF new.stake_amount < MIN_ORACLE_STAKE
                                    THEN "Slashed" ELSE old.status]_vars

\* ----------------------------------------------------------------------
\* User verification profile (SpecVerification)
\* ----------------------------------------------------------------------
NextVerification ==
    \/ Tick(MIN_HARVEST_INTERVAL, MaxNow)
    \/ \E ticket_steam_id \in SteamIds, offset \in TicketOffsets, signature_empty \in BOOLEAN :
          VerifySteamSession(ticket_steam_id, offset, signature_empty)
    \/ \E oauth_steam_id \in SteamIds, oauth_wallet_pubkey \in Wallets,
          offset \in TicketOffsets, signature_empty \in BOOLEAN :
          VerifyOauthWallet(oauth_steam_id, oauth_wallet_pubkey, offset, signature_empty)
    \/ \E issuer \in Issuers, offset \in TicketOffsets, proof_empty \in BOOLEAN :
          AddZkpAttestation(issuer, offset, proof_empty)
    \/ \E achievements_empty \in BOOLEAN, nfts_empty \in BOOLEAN, activity_empty \in BOOLEAN,
          ruby_score \in RubyScores :
          VerifyMultiFactor(achievements_empty, nfts_empty, activity_empty, ruby_score)
    \/ IsEligibleForRewards
    \/ MarkFraudulent

SpecVerification == Init /\ [][NextVerification]_vars

\* C20: every successful verify_steam_session call sets steam_session_valid
\* to true, increases verification_level by one and increases
\* total_verifications by one.
C20_VerifySession ==
    [][\A ticket_steam_id \in SteamIds, offset \in TicketOffsets, signature_empty \in BOOLEAN :
          (VerifySteamSession(ticket_steam_id, offset, signature_empty) /\ last'.err = "Ok") =>
            /\ profile'.steam_session_valid = TRUE
            /\ profile'.verification_level = profile.verification_level + 1
            /\ profile'.total_verifications = profile.total_verifications + 1]_vars

\* A timestamp offset from the clock that is neither stale nor in the future.
FreshOffset(offset) ==
    /\ now - MAX_VERIFICATION_AGE <= now + offset
    /\ now + offset <= now

\* C21: verify_steam_session, verify_oauth_wallet and add_zkp_attestation
\* succeed only when the supplied timestamp lies between
\* now - MAX_VERIFICATION_AGE and now, the Steam id (and the wallet key, or
\* the attestation issuer) matches the profile / the trusted oracle key, and
\* the signature or proof is non-empty; a rejected call leaves the profile
\* unchanged.
C21_VerificationGuards ==
    [][ /\ \A ticket_steam_id \in SteamIds, offset \in TicketOffsets,
              signature_empty \in BOOLEAN :
              VerifySteamSession(ticket_steam_id, offset, signature_empty) =>
                /\ last'.err = "Ok" =>
                      (FreshOffset(offset) /\ ticket_steam_id = profile.steam_id
                         /\ ~signature_empty)
                /\ last'.err # "Ok" => profile' = profile
        /\ \A oauth_steam_id \in SteamIds, oauth_wallet_pubkey \in Wallets,
              offset \in TicketOffsets, signature_empty \in BOOLEAN :
              VerifyOauthWallet(oauth_steam_id, oauth_wallet_pubkey, offset, signature_empty) =>
                /\ last'.err = "Ok" =>
                      (FreshOffset(offset) /\ oauth_steam_id = profile.steam_id
                         /\ oauth_wallet_pubkey = profile.wallet_pubkey /\ ~signature_empty)
                /\ last'.err # "Ok" => profile' = profile
        /\ \A issuer \in Issuers, offset \in TicketOffsets, proof_empty \in BOOLEAN :
              AddZkpAttestation(issuer, offset, proof_empty) =>
                /\ last'.err = "Ok" =>
                      (FreshOffset(offset) /\ issuer = ORACLE_PUBKEY /\ ~proof_empty)
                /\ last'.err # "Ok" => profile' = profile ]_vars

\* A ticket from the future was rejected on a profile that already holds a
\* verified session, a linked wallet and an attestation.
C21_Witness ==
    /\ last.op = "verify_steam_session"
    /\ last.err = "InvalidTimestamp"
    /\ profile.steam_session_valid
    /\ profile.oauth_wallet_linked
    /\ Len(profile.zkp_attestations) > 0

\* C22: the profile advances in the order Unverified, SessionVerified,
\* WalletLinked, MultiFactorScored: a linked wallet implies a verified
\* session in every state, and verify_multi_factor succeeds only when both
\* hold, failing with SteamSessionRequired when the session is not verified
\* and with OAuthWalletRequired when only the wallet link is missing.
C22_VerificationOrder ==
    [][ /\ profile'.oauth_wallet_linked => profile'.steam_session_valid
        /\ \A achievements_empty \in BOOLEAN, nfts_empty \in BOOLEAN,
              activity_empty \in BOOLEAN, ruby_score \in RubyScores :
              ( /\ VerifyMultiFactor(achievements_empty, nfts_empty, activity_empty, ruby_score)
                /\ ~profile.fraud_detected ) =>
                /\ last'.err = "Ok" =>
                      (profile.steam_session_valid /\ profile.oauth_wallet_linked)
                /\ ~profile.steam_session_valid => last'.err = "SteamSessionRequired"
                /\ (profile.steam_session_valid /\ ~profile.oauth_wallet_linked) =>
                      last'.err = "OAuthWalletRequired" ]_vars

\* The number of signals present in the multi-factor data.
SignalsPresent(achievements_empty, nfts_empty, activity_empty, ruby_score) ==
    (IF ~achievements_empty THEN 1 ELSE 0) + (IF ~nfts_empty THEN 1 ELSE 0)
      + (IF ~activity_empty THEN 1 ELSE 0) + (IF ruby_score > 0 THEN 1 ELSE 0)

\* C23: after a successful verify_multi_factor the stored multi_factor_score
\* is 25 times the number of signals present (achievements, NFTs, on-chain
\* activity, ruby score > 0), whatever the score stored before; so the
\* stored score is always one of 0, 25, 50, 75, 100.
C23_MultiFactorScore ==
    [][ /\ profile'.multi_factor_score \in {0, 25, 50, 75, 100}
        /\ \A achievements_empty \in BOOLEAN, nfts_empty \in BOOLEAN,
              activity_empty \in BOOLEAN, ruby_score \in RubyScores :
              ( /\ VerifyMultiFactor(achievements_empty, nfts_empty, activity_empty, ruby_score)
                /\ last'.err = "Ok" ) =>
                profile'.multi_factor_score =
                  25 * SignalsPresent(achievements_empty, nfts_empty, activity_empty, ruby_score)
      ]_vars

\* A successful verify_multi_factor stored 25 on a profile whose level was
\* raised to MaxLevel by wallet and multi-factor calls alone.
C23_Witness ==
    /\ last.op = "verify_multi_factor"
    /\ last.err = "Ok"
    /\ profile.multi_factor_score = 25
    /\ profile.verification_level = MaxLevel
    /\ profile.zkp_attestations = <<>>
    /\ profile.total_verifications = 1

\* C24: is_eligible_for_rewards yields true exactly when the profile is
\* not fraudulent, has a valid session and a linked wallet, a
\* verification_level of at least 2 and a multi_factor_score of at least
\* 50; otherwise it does not yield true; the call changes no profile field.
C24_IsEligible ==
    [][IsEligibleForRewards =>
         /\ (last'.err = "Ok" /\ last'.ret = TRUE) <=>
               ( /\ ~profile.fraud_detected
                 /\ profile.steam_session_valid
                 /\ profile.oauth_wallet_linked
                 /\ profile.verification_level >= 2
                 /\ profile.multi_factor_score >= 50 )
         /\ profile' = profile]_vars

\* The call yielded true for a profile whose score is exactly 50.
C24_Witness ==
    /\ last.op = "is_eligible_for_rewards"
    /\ last.err = "Ok"
    /\ last.ret = TRUE
    /\ profile.multi_factor_score = 50

\* The four operations that build up a profile's trust.
VerificationOps ==
    {"verify_steam_session", "verify_oauth_wallet", "add_zkp_attestation",
     "verify_multi_factor"}

\* C25: once mark_fraudulent has been applied, whatever verify_steam_session,
\* verify_oauth_wallet, add_zkp_attestation and verify_multi_factor calls
\* follow, fraud_detected stays true, steam_session_valid and
\* oauth_wallet_linked stay false and verification_level stays 0: each of
\* those calls fails with FraudDetected and changes nothing.
C25_FraudInvariant ==
    [][ /\ MarkFraudulent => profile'.fraud_detected
        /\ profile.fraud_detected => profile'.fraud_detected
        /\ profile'.fraud_detected =>
              ( /\ ~profile'.steam_session_valid
                /\ ~profile'.oauth_wallet_linked
                /\ profile'.verification_level = 0 )
        /\ (profile.fraud_detected /\ last'.op \in VerificationOps) =>
              (last'.err = "FraudDetected" /\ profile' = profile) ]_vars

\* A multi-factor call was refused on a profile that was marked fraudulent
\* after its session had been verified and an attestation added.
C25_Witness ==
    /\ profile.fraud_detected
    /\ last.op = "verify_multi_factor"
    /\ last.err = "FraudDetected"
    /\ profile.total_verifications > 0
    /\ Len(profile.zkp_attestations) > 0

\* is_eligible_for_rewards yields true for the current profile.
Eligible ==
    LET r == is_eligible_for_rewards(profile) IN r.err = "Ok" /\ r.ret = TRUE

\* C26: mark_fraudulent is idempotent, and from the moment it has been
\* applied is_eligible_for_rewards never yields true again, whatever
\* verification operations are attempted afterwards.
C26_FraudIsFinal ==
    /\ [][MarkFraudulent => mark_fraudulent(profile') = profile']_vars
    /\ [](last.op = "mark_fraudulent" => []~Eligible)

\* mark_fraudulent was applied to a profile that holds an attestation and
\* has had its session verified MaxSessions times.
C26_Witness ==
    /\ last.op = "mark_fraudulent"
    /\ profile.fraud_detected
    /\ profile.last_verification > GENESIS_TIME
    /\ Len(profile.zkp_attestations) > 0
    /\ profile.total_verifications = MaxSessions

\* C27: for an eligible user, a later verify_multi_factor call with fewer
\* than two signals present makes is_eligible_for_rewards stop yielding true
\* and leaves verification_level unchanged.
C27_DowngradeKeepsLevel ==
    [][\A achievements_empty \in BOOLEAN, nfts_empty \in BOOLEAN,
          activity_empty \in BOOLEAN, ruby_score \in RubyScores :
          ( /\ Eligible
            /\ SignalsPresent(achievements_empty, nfts_empty, activity_empty, ruby_score) < 2
            /\ VerifyMultiFactor(achievements_empty, nfts_empty, activity_empty, ruby_score) ) =>
            /\ ~Eligible'
            /\ profile'.verification_level = profile.verification_level]_vars

\* C27, as the code has it: for an eligible user, a later
\* verify_multi_factor call with fewer than two signals present succeeds,
\* makes is_eligible_for_rewards stop yielding true and raises
\* verification_level by one, saturating at the u8 maximum.
C27_DowngradeRaisesLevel ==
    [][\A achievements_empty \in BOOLEAN, nfts_empty \in BOOLEAN,
          activity_empty \in BOOLEAN, ruby_score \in RubyScores :
          ( /\ Eligible
            /\ SignalsPresent(achievements_empty, nfts_empty, activity_empty, ruby_score) < 2
            /\ VerifyMultiFactor(achievements_empty, nfts_empty, activity_empty, ruby_score) ) =>
            /\ last'.err = "Ok"
            /\ ~Eligible'
            /\ profile'.verification_level =
                  saturating_add8(profile.verification_level, 1)]_vars

\* A verify_multi_factor call with no signal present succeeded on a profile
\* that was eligible before it.
C27_Witness ==
    /\ last.op = "verify_multi_factor"
    /\ last.err = "Ok"
    /\ last.was_eligible
    /\ profile.multi_factor_score = 0

\* ----------------------------------------------------------------------
\* UserReward staking (SpecStaking)
\* ----------------------------------------------------------------------
\* The clock passes through GENESIS_TIME plus 0, MIN_STAKING_PERIOD,
\* MAX_STAKING_PERIOD - MIN_STAKING_PERIOD and MAX_STAKING_PERIOD.
NextStaking ==
    \/ Tick(MIN_STAKING_PERIOD, GENESIS_TIME + MIN_STAKING_PERIOD)
    \/ Tick(MAX_STAKING_PERIOD - MIN_STAKING_PERIOD, GENESIS_TIME + MAX_STAKING_PERIOD)
    \/ \E u \in Users, amount \in StakeAmounts, offset \in StakingOffsets :
          StartStaking(u, amount, offset)
    \/ \E u \in Users : CalculateStakingBonus(u)

SpecStaking == Init /\ [][NextStaking]_vars

\* The bonus the tiers give for an elapsed staking time.
TierBonus(elapsed) ==
    IF elapsed < MIN_STAKING_PERIOD THEN 100
    ELSE IF elapsed < MAX_STAKING_PERIOD THEN 120
    ELSE 150

\* The clock values of SpecStaking.
StakingTimes ==
    {GENESIS_TIME, GENESIS_TIME + MIN_STAKING_PERIOD,
     GENESIS_TIME + MAX_STAKING_PERIOD - MIN_STAKING_PERIOD, GENESIS_TIME + MAX_STAKING_PERIOD}

\* C28: calculate_staking_bonus(now) returns 100 for an account that is not
\* staking and, for one that is, 100 when now - staking_start_timestamp is
\* below MIN_STAKING_PERIOD, 120 from MIN_STAKING_PERIOD up to but not
\* including MAX_STAKING_PERIOD, and 150 from MAX_STAKING_PERIOD on; the
\* result never decreases as now grows, and the call changes no state.
C28_StakingBonus ==
    [][\A u \in Users :
          /\ CalculateStakingBonus(u) =>
                /\ last'.ret = IF user_reward[u].is_staking
                                THEN TierBonus(now - user_reward[u].staking_start_timestamp)
                                ELSE 100
                /\ user_reward' = user_reward /\ treasury' = treasury
          /\ \A t1 \in StakingTimes, t2 \in StakingTimes :
                t1 <= t2 => calculate_staking_bonus(user_reward'[u], t1)
                              <= calculate_staking_bonus(user_reward'[u], t2) ]_vars

\* The bonus of an account that has been staking for exactly
\* MIN_STAKING_PERIOD was computed.
C28_Witness ==
    /\ last.op = "calculate_staking_bonus"
    /\ user_reward[last.user].is_staking
    /\ now - user_reward[last.user].staking_start_timestamp = MIN_STAKING_PERIOD
    /\ last.ret = 120

\* C29: start_staking(amount) fails with AlreadyStaking on an account that
\* is staking and with InvalidStakeAmount when amount is 0, changing
\* nothing; on success it moves amount from the claimed balance to the
\* staked balance (amount is at most the claimed balance, the claimed
\* balance goes down and the staked balance up by amount), sets the staking
\* flag and records the start time.
C29_StartStaking ==
    [][\A u \in Users, amount \in StakeAmounts, offset \in StakingOffsets :
          StartStaking(u, amount, offset) =>
            LET old == user_reward[u]
                new == user_reward'[u]
            IN /\ old.is_staking => (last'.err = "AlreadyStaking" /\ new = old)
               /\ (~old.is_staking /\ amount = 0) =>
                     (last'.err = "InvalidStakeAmount" /\ new = old)
               /\ last'.err = "Ok" =>
                     /\ amount <= old.total_claimed
                     /\ new.total_claimed = old.total_claimed - amount
                     /\ new.staked_amount = old.staked_amount + amount
                     /\ new.is_staking
                     /\ new.staking_start_timestamp = now + offset]_vars

\* ----------------------------------------------------------------------
\* gaming_rewards_protocol staking (SpecProgram)
\* ----------------------------------------------------------------------
NextProgram ==
    \/ Tick(DAY, GENESIS_TIME + DAY)
    \/ \E u \in Users, id \in AchievementIds, rarity \in Rarities, transfer_ok \in BOOLEAN :
          ClaimAchievement(u, id, rarity, transfer_ok)
    \/ \E u \in Users, amount \in ProgramStakeAmounts, transfer_ok \in BOOLEAN :
          StakeRewards(u, amount, transfer_ok)
    \/ \E u \in Users, amount \in UnstakeAmounts, transfer_ok \in BOOLEAN :
          UnstakeRewards(u, amount, transfer_ok)

SpecProgram == InitProgram /\ [][NextProgram]_vars

\* C30: in every state reached by stake_rewards and unstake_rewards calls
\* an active staking position has staked_amount > 0; an unstake of more
\* than staked_amount fails and changes nothing; a position becomes
\* inactive exactly when an unstake brings staked_amount to zero, and a
\* position that has become inactive never becomes active again.
C30_StakingPosition ==
    [][\A u \in Users :
          LET old == staking_account[u]
              new == staking_account'[u]
              Emptied == /\ last'.op = "unstake_rewards" /\ last'.err = "Ok"
                         /\ last'.user = u /\ new.staked_amount = 0
          IN /\ new.is_active => new.staked_amount > 0
             /\ \A amount \in UnstakeAmounts, transfer_ok \in BOOLEAN :
                   (UnstakeRewards(u, amount, transfer_ok) /\ amount > old.staked_amount) =>
                     (last'.err # "Ok" /\ UNCHANGED program_vars)
             /\ (old.is_active /\ ~new.is_active) <=> (old.is_active /\ Emptied)
             /\ (old.initialized /\ ~old.is_active) => ~new.is_active ]_vars

\* stake_rewards was refused for a user whose position had been opened and
\* then emptied by unstake_rewards.
C30_Witness ==
    /\ last.op = "stake_rewards"
    /\ last.err = "AccountAlreadyInUse"
    /\ staking_account[last.user].initialized
    /\ ~staking_account[last.user].is_active
    /\ staking_account[last.user].staked_amount = 0
    /\ user_profile[last.user].total_rewards > 0

\* ----------------------------------------------------------------------
\* SecurityManager (SpecSecurity)
\* ----------------------------------------------------------------------
NextSecurity ==
    \/ Tick(MIN_HARVEST_INTERVAL, MaxNow)
    \/ \E operation_type \in AuditedOperations, user \in Actors :
          AddAuditEntry(operation_type, user)
    \/ \E operation_type \in OperationTypes, user \in Actors :
          VerifyOperation(operation_type, user)
    \/ \E user \in Actors : EmergencyPause(user)
    \/ \E user \in Actors : ResumeOperations(user)
    \/ \E user \in Actors : UpdateSecurityPolicy("harvest_rebalance", RelaxedPolicy, user)

SpecSecurity == Init /\ [][NextSecurity]_vars

\* What the four checks of a known policy give, taken in the order pause
\* flag, rate limit, security level, required verifications.
ChecksPass(operation_type, user) ==
    LET policy == security_manager.security_policies[operation_type]
    IN /\ ~security_manager.emergency_paused
       /\ check_rate_limit(security_manager, operation_type, user, now,
                            [max_operations |-> policy.max_operations,
                             time_window |-> policy.time_window])
       /\ check_security_level(security_manager, policy.min_security_level, user)
       /\ \A i \in 1..Len(policy.required_verifications) :
             check_verification(security_manager, policy.required_verifications[i], user)

\* C31: verify_operation reports every expected failure (protocol paused,
\* rate limit exhausted, security level insufficient, verification
\* missing) as the value false and never as an error; it returns an error
\* only for an unknown policy name.
C31_ExpectedFailuresAreFalse ==
    [][\A operation_type \in OperationTypes, user \in Actors :
          VerifyOperation(operation_type, user) =>
            IF operation_type \in DOMAIN security_manager.security_policies
            THEN /\ last'.err = "Ok"
                 /\ last'.ret = ChecksPass(operation_type, user)
            ELSE last'.err \in {"Ok", "PolicyNotFound"} ]_vars

\* C32: the emergency_paused flag changes only through owner calls.
\* emergency_pause / resume_operations by any actor other than the owner
\* fail with Unauthorized and leave the flag unchanged; an owner pause sets
\* it (AlreadyPaused if already set), an owner resume clears it (NotPaused
\* if not set).  No other operation changes the flag.
C32_PauseFlagOwnerOnly ==
    [][/\ \A user \in Actors :
            EmergencyPause(user) =>
              IF user # security_manager.owner
              THEN /\ last'.err = "Unauthorized"
                   /\ security_manager'.emergency_paused = security_manager.emergency_paused
              ELSE IF security_manager.emergency_paused
              THEN /\ last'.err = "AlreadyPaused"
                   /\ security_manager'.emergency_paused
              ELSE /\ last'.err = "Ok"
                   /\ security_manager'.emergency_paused
       /\ \A user \in Actors :
            ResumeOperations(user) =>
              IF user # security_manager.owner
              THEN /\ last'.err = "Unauthorized"
                   /\ security_manager'.emergency_paused = security_manager.emergency_paused
              ELSE IF ~security_manager.emergency_paused
              THEN /\ last'.err = "NotPaused"
                   /\ ~security_manager'.emergency_paused
              ELSE /\ last'.err = "Ok"
                   /\ ~security_manager'.emergency_paused
       /\ security_manager'.emergency_paused # security_manager.emergency_paused =>
            /\ last'.op \in {"emergency_pause", "resume_operations"}
            /\ last'.err = "Ok" ]_vars

\* The owner has paused the protocol and the resume of another actor has
\* just been rejected, the flag still set.
C32_Witness ==
    /\ last.op = "resume_operations"
    /\ last.err = "Unauthorized"
    /\ security_manager.emergency_paused

PrivilegedOps == {"emergency_pause", "resume_operations", "update_security_policy"}

\* C33: every privileged action (emergency_pause, resume_operations,
\* update_security_policy), whether it succeeds or is rejected, appends
\* exactly one entry to the audit trail.
C33_PrivilegedActionsAudited ==
    [][last'.op \in PrivilegedOps =>
         /\ Len(security_manager'.audit_trail) > 0
         /\ \/ /\ Len(security_manager'.audit_trail) = Len(security_manager.audit_trail) + 1
               /\ SubSeq(security_manager'.audit_trail, 1, Len(security_manager.audit_trail))
                    = security_manager.audit_trail
            \/ /\ Len(security_manager.audit_trail) = MAX_AUDIT_TRAIL
               /\ Len(security_manager'.audit_trail) = MAX_AUDIT_TRAIL
               /\ SubSeq(security_manager'.audit_trail, 1, MAX_AUDIT_TRAIL - 1)
                    = Tail(security_manager.audit_trail) ]_vars

\* C34: the audit trail is append-only and bounded.  Its length never
\* exceeds the maximum; add_audit_entry keeps the existing entries
\* unmodified and in insertion order, puts the new entry last, and evicts
\* exactly the oldest entry when the append would exceed the maximum; no
\* other operation changes the trail.
C34_AuditTrailBounded ==
    [][/\ Len(security_manager'.audit_trail) <= MAX_AUDIT_TRAIL
       /\ security_manager'.audit_trail # security_manager.audit_trail =>
            last'.op = "add_audit_entry"
       /\ last'.op = "add_audit_entry" =>
            LET old == security_manager.audit_trail
                new == security_manager'.audit_trail
            IN /\ last'.err = "Ok"
               /\ new[Len(new)].timestamp = now
               /\ new[Len(new)].verified = FALSE
               /\ IF Len(old) < MAX_AUDIT_TRAIL
                  THEN /\ Len(new) = Len(old) + 1
                       /\ SubSeq(new, 1, Len(old)) = old
                  ELSE /\ Len(new) = MAX_AUDIT_TRAIL
                       /\ SubSeq(new, 1, MAX_AUDIT_TRAIL - 1) = Tail(old) ]_vars

\* An append to a full trail has just evicted the oldest entry: the trail
\* is full and its first entry is younger than the clock's first value.
C34_Witness ==
    /\ last.op = "add_audit_entry"
    /\ Len(security_manager.audit_trail) = MAX_AUDIT_TRAIL
    /\ security_manager.audit_trail[1].timestamp > GENESIS_TIME

\* ------------------------------------------------ achievement rewards
\* The two programs that pay a reward for an achievement.  The rewards of
\* the claims explored stay inside a u64, so the build profile plays no part.
NextAchievement ==
    \/ Tick(DAY, GENESIS_TIME + DAY)
    \/ \E u \in Users, id \in AchievementIds, transfer_ok \in BOOLEAN :
          ClaimAchievement(u, id, "Common", transfer_ok)
    \/ \E u \in Users, achievement_id \in VerificationIds, input \in VerificationInputs,
          transfer_ok \in BOOLEAN :
          VerifyAchievement(u, achievement_id, input.game_id, input.achievement_name,
                            input.reward_amount, input.rarity, input.difficulty, transfer_ok)

SpecAchievement == Init /\ [][NextAchievement]_vars

\* C35: no double claim.  For every (user, achievement id) pair a
\* claim_achievement / verify_achievement call succeeds only when the
\* pair's record does not exist yet, and creates it; the record is never
\* removed; an attempt for a pair whose record exists fails, credits no
\* reward to the user and adds nothing to total_rewards_distributed.
C35_NoDoubleClaim ==
    [][/\ \A u \in Users, id \in AchievementIds :
            /\ achievement[u][id].initialized => achievement'[u][id] = achievement[u][id]
            /\ \A rarity \in Rarities, transfer_ok \in BOOLEAN :
                 ClaimAchievement(u, id, rarity, transfer_ok) =>
                   /\ last'.err = "Ok" =>
                        ~achievement[u][id].initialized /\ achievement'[u][id].initialized
                   /\ achievement[u][id].initialized =>
                        /\ last'.err # "Ok"
                        /\ user_profile' = user_profile
                        /\ protocol_state' = protocol_state
       /\ \A u \in Users, id \in VerificationIds :
            rewards_program.achievement_verification[u][id].initialized =>
              rewards_program'.achievement_verification[u][id]
                = rewards_program.achievement_verification[u][id]
       /\ last'.op = "verify_achievement" =>
            LET u == last'.user
                id == last'.achievement_id
                record == rewards_program.achievement_verification[u][id]
            IN /\ last'.err = "Ok" =>
                    /\ ~record.initialized
                    /\ rewards_program'.achievement_verification[u][id].initialized
               /\ record.initialized =>
                    /\ last'.err # "Ok"
                    /\ rewards_program'.user_profile = rewards_program.user_profile
                    /\ rewards_program'.protocol_state = rewards_program.protocol_state ]_vars

\* A second verify_achievement for a verified pair has just been rejected
\* a day after the first, and the same user's claim_achievement record
\* exists in the other program.
C35_Witness ==
    /\ last.op = "verify_achievement"
    /\ last.err = "AccountAlreadyInUse"
    /\ now - rewards_program.achievement_verification[last.user][last.achievement_id].verified_at >= 60
    /\ \E id \in AchievementIds : achievement[last.user][id].initialized

\* ------------------------------------------------------------ SimpleCipher
InitCipher == InitAccounts /\ overflow_checks = TRUE /\ cipher \in CipherInputs

NextCipher == Encrypt \/ Decrypt

SpecCipher == InitCipher /\ [][NextCipher]_vars

\* C36: SimpleCipher round trip.  For every key and every byte sequence d,
\* encrypt preserves the length of d and decrypt(encrypt(d)) = d.
C36_RoundTrip ==
    /\ cipher.stage \in {"encrypted", "decrypted"} => Len(cipher.encrypted) = Len(cipher.data)
    /\ cipher.stage = "decrypted" => cipher.decrypted = cipher.data

\* Data longer than the key, with a key of two different non-zero bytes,
\* has been encrypted to something else and decrypted.
C36_Witness ==
    /\ cipher.stage = "decrypted"
    /\ Len(cipher.data) > Len(cipher.key)
    /\ cipher.key[1] # cipher.key[2]
    /\ \A i \in 1..Len(cipher.key) : cipher.key[i] # 0
    /\ \A i \in 1..Len(cipher.data) : cipher.encrypted[i] # cipher.data[i]

\* ------------------------------------------------------- register_user
NextRegistration ==
    \/ Tick(DAY, GENESIS_TIME + DAY)
    \/ \E u \in RegisteringUsers, steam_id \in RegistrationSteamIds,
          user_data_steam_id \in UserDataSteamIds, fraud_score \in FraudScores :
          RegisterUser(u, steam_id, user_data_steam_id, fraud_score)

SpecRegistration == Init /\ [][NextRegistration]_vars

\* C38: register_user rejects with UserBlacklisted every registration
\* whose fraud_score is >= 100 and accepts every registration whose
\* fraud_score is < 100, given a valid 17-digit Steam id that matches
\* user_data.steam_id, for all fraud_score values 0..255.
C38_BlacklistThreshold ==
    [][\A u \in RegisteringUsers, fraud_score \in FraudScores :
          ( /\ ~user_state[u].initialized
            /\ RegisterUser(u, ValidSteamId, ValidSteamId, fraud_score) ) =>
              IF fraud_score >= 100
              THEN last'.err = "UserBlacklisted" /\ ~user_state'[u].initialized
              ELSE last'.err = "Ok" /\ user_state'[u].fraud_score = fraud_score ]_vars

\* -------------------------------------------------- WasmSecurityManager
NextWasm ==
    \/ Tick(MIN_HARVEST_INTERVAL, MaxNow)
    \/ \E user_id \in WasmUserIds, operation_type \in WasmOperationTypes,
          offset \in CurrentTimeOffsets :
          WasmCheckRateLimit(user_id, operation_type, offset)

SpecWasm == InitProgram /\ [][NextWasm]_vars

\* C39: WasmSecurityManager enforces one operation per hour per (user,
\* operation type): after a check_rate_limit call for a key has succeeded
\* at time t, the next check_rate_limit for the same user and operation
\* type on the same manager at a time before t + 1 hour returns
\* success = false with 'Rate limit exceeded'.
C39_OnePerHour ==
    [][( /\ last.op = "check_rate_limit"
         /\ last.success
         /\ last'.op = "check_rate_limit"
         /\ last'.user_id = last.user_id
         /\ last'.operation_type = last.operation_type
         /\ last'.current_time >= last.current_time
         /\ last'.current_time < last.current_time + HOUR_MS ) =>
           /\ last'.success = FALSE
           /\ last'.error = "Rate limit exceeded" ]_vars

\* ------------------------------------------------------------ accounting
\* Harvests and well-formed claims large enough to bring the counters to
\* the end of the u64 range.
NextAccounting ==
    \/ Tick(MIN_HARVEST_INTERVAL, AccountingMaxNow)
    \/ HarvestAndRebalance(AccountingHarvest)
    \/ \E u \in Users, transfer_ok \in BOOLEAN, claim_amount \in AccountingClaims :
          ClaimReward(u, "good", 0, TRUE, transfer_ok, claim_amount)

SpecAccounting == Init /\ [][NextAccounting]_vars

\* u64 total_claimed + amount, or u32 claims_in_window + 1, is out of range
WouldOverflow(u, claim_amount) ==
    \/ user_reward[u].total_claimed + claim_amount > U64_MAX
    \/ user_reward[u].claims_in_window + 1 > U32_MAX

\* C37: on the claim path no counter saturates silently.  A claim_reward
\* whose total_claimed + amount (or claims_in_window + 1) would overflow
\* fails, with ArithmeticOverflow when it passed the checks and the
\* transfer, and changes neither the treasury nor the user account; and
\* whenever claim_reward debits the pool, the total_claimed of one user
\* grows by the amount debited.
C37_NoSilentSaturation ==
    [][last'.op = "claim_reward" =>
         /\ \A u \in Users, transfer_ok \in BOOLEAN, claim_amount \in AccountingClaims :
              ( /\ WouldOverflow(u, claim_amount)
                /\ ClaimReward(u, "good", 0, TRUE, transfer_ok, claim_amount) ) =>
                  /\ last'.err # "Ok"
                  /\ treasury' = treasury
                  /\ user_reward' = user_reward
                  /\ ( /\ transfer_ok
                       /\ claim_reward_checks(treasury, user_reward[u], oracle_account["good"],
                                               now, now, TRUE, claim_amount).err = "Ok" )
                       => last'.err = "ArithmeticOverflow"
         /\ treasury'.user_rewards_pool # treasury.user_rewards_pool =>
              \E u \in Users :
                 /\ user_reward'[u].total_claimed - user_reward[u].total_claimed
                      = treasury.user_rewards_pool - treasury'.user_rewards_pool
                 /\ \A w \in Users \ {u} : user_reward'[w] = user_reward[w] ]_vars

\* A claim that would take a user's total_claimed past u64::MAX has just
\* been rejected with ArithmeticOverflow, the pool holding the amount.
C37_Witness ==
    /\ last.op = "claim_reward"
    /\ last.err = "ArithmeticOverflow"
    /\ \E u \in Users, claim_amount \in AccountingClaims :
         /\ user_reward[u].total_claimed + claim_amount > U64_MAX
         /\ treasury.user_rewards_pool >= claim_amount

RECURSIVE SumClaimed(_)
SumClaimed(users) ==
    IF users = {} THEN 0
    ELSE LET u == CHOOSE x \in users : TRUE
         IN user_reward[u].total_claimed + SumClaimed(users \ {u})

\* C40: cross-account accounting.  In every state reachable from an
\* all-zero Treasury and all-zero user accounts by harvests and
\* claim_reward calls of any users, treasury.total_distributed equals the
\* sum over all users of total_claimed.
C40_DistributedIsSumClaimed ==
    treasury.total_distributed = SumClaimed(Users)

\* Both users have claimed, and a further claim that the pool could pay has
\* just been rejected because total_distributed would leave the u64 range.
C40_Witness ==
    /\ \A u \in Users : user_reward[u].total_claimed > 0
    /\ last.op = "claim_reward"
    /\ last.err = "ArithmeticOverflow"
    /\ treasury.total_distributed > U64_MAX - U64_MAX \div 4

====
